---- MODULE Spec2Model ----
(***************************************************************************)
(* OpenAgent agent execution core.                                         *)
(*                                                                         *)
(*   SwarmSpec : POST /chat/swarm (backend/src/server.js) driving          *)
(*               SwarmOrchestrator.decompose / executeSwarm / synthesize   *)
(*               (backend/src/orchestrator.js).                            *)
(*   GateSpec  : executeTool (backend/src/server.js) dispatching           *)
(*               run_command to runCommand (backend/src/tools/terminal.js) *)
(*               and grep_search to grepSearch (tools/filesystem.js).      *)
(*   ChatSpec  : the single-agent loop, in its two handlers: POST /chat    *)
(*               (backend/src/server.js) and POST /api/chat, the           *)
(*               conversation-backed streaming handler.                    *)
(***************************************************************************)
EXTENDS Integers, Sequences, FiniteSets, TLC

\* ------------------------------------------------------------------------
\* Bounds of the model
\* ------------------------------------------------------------------------
\* largest number of tasks the planner returns; ids and depends_on entries
\* range over 1..MaxTasks, so a graph of fewer tasks can name a missing id
MaxTasks == 3
\* largest number of depends_on entries in one graph, all tasks together
MaxEdges == 3
\* longest text, in tokens, of a command or search argument
MaxTextLen == 4
\* most tool calls requested by one model response
MaxCalls == 2
\* most capability invocations that fail in one turn
MaxToolFailures == 1
\* most chunks of one streamed model response
MaxChunks == 2
\* longest time, in milliseconds, one capability invocation takes
MaxElapsed == 1
\* most calls made to a dispatcher, one after the other
MaxInvocations == 2
\* longest task list, and most ids in one depends_on, of a planner answer
\* whose ids need not be distinct
MaxListLen == 2
MaxDeps == 1
\* longest content, in tokens, of a file that is edited
MaxContentLen == 3

VARIABLES
    sw_pc,          \* position of the /chat/swarm handler
    tasks,          \* the array returned by decompose()
    pending,        \* executeSwarm: const pending = [...tasks]
    completed,      \* executeSwarm: const completed = new Set()
    results,        \* executeSwarm: const results = {}
    runnable,       \* executeSwarm: the wavefront being executed
    inflight,       \* indices of runnable whose toolExecutor promise is unsettled
    activeAgents,   \* this.activeAgents
    sw_events,      \* what the handler has written to the response stream
    g_pc,           \* position of one executeTool call
    g_call,         \* the call: tool name and arguments
    g_spawned,      \* command texts handed to child_process.exec, in order
    g_result,       \* the value executeTool resolved with
    ch_handler,     \* "chat" (POST /chat) or "api_chat" (POST /api/chat)
    ch_pc,          \* position of the handler
    ch_iterations,  \* let iterations
    ch_rounds,      \* times the for loop over tool_calls was entered (history)
    ch_resp,        \* the model response being handled
    ch_idx,         \* index in tool_calls of the invocation being awaited
    ch_messages,    \* conversationMessages / ollamaMessages
    ch_toolCalls,   \* /api/chat: let toolCalls
    ch_full,        \* /api/chat: let fullResponse
    ch_chunks,      \* /api/chat: chunks of the streamed response seen so far
    ch_conv,        \* /api/chat: conv.messages
    ch_events,      \* what the handler has written to the response stream
    d_pc,           \* position of one dispatcher call: idle, returned or thrown
    d_call,         \* the dispatcher called, the capability name and the arguments
    d_result,       \* the value the dispatcher resolved with
    d_effects,      \* what the call did: mkdir, write, spawn
    d_count,        \* dispatcher calls made so far
    d_prev,         \* the call made before d_call
    d_fs            \* the directories that exist and what each file holds

swarmVars == <<sw_pc, tasks, pending, completed, results, runnable, inflight,
               activeAgents, sw_events>>

gateVars == <<g_pc, g_call, g_spawned, g_result>>

chatVars == <<ch_handler, ch_pc, ch_iterations, ch_rounds, ch_resp, ch_idx,
              ch_messages, ch_toolCalls, ch_full, ch_chunks, ch_conv, ch_events>>

dispVars == <<d_pc, d_call, d_prev, d_result, d_effects, d_count, d_fs>>

vars == <<swarmVars, gateVars, chatVars, dispVars>>

\* ------------------------------------------------------------------------
\* Helpers on sequences
\* ------------------------------------------------------------------------
RECURSIVE SelectSeqIdx(_, _, _)
\* index of the first element whose id is the given one, 0 for none
SelectSeqIdx(s, id, i) ==
    IF i > Len(s) THEN 0
    ELSE IF s[i].id = id THEN i
    ELSE SelectSeqIdx(s, id, i + 1)

FindIndex(s, id) == SelectSeqIdx(s, id, 1)

\* pending.splice(idx): everything from idx on is dropped
SpliceToEnd(s, idx) == SubSeq(s, 1, idx - 1)

\* Array.prototype.splice(idx, 1)
Splice(s, idx) == SubSeq(s, 1, idx - 1) \o SubSeq(s, idx + 1, Len(s))

\* ------------------------------------------------------------------------
\* The task graphs decompose() can hand to executeSwarm
\* ------------------------------------------------------------------------
TaskIds == 1..MaxTasks

\* a dependency edge <<i, d>>: task i lists d in depends_on
Edges(n) == (1..n) \X TaskIds

\* the sets of at most k edges among the tasks 1..n
RECURSIVE EdgeSets(_, _)
EdgeSets(n, k) ==
    IF k = 0 THEN {{}}
    ELSE UNION {{s} \cup {s \cup {e} : e \in Edges(n)} : s \in EdgeSets(n, k - 1)}

\* a planner answer: n tasks with ids 1..n, each with any depends_on list
\* over TaskIds (self references, cycles and missing ids included)
GraphOf(n, es) ==
    [i \in 1..n |-> [id |-> i, depends_on |-> {e[2] : e \in {x \in es : x[1] = i}}]]

Graphs == UNION {{GraphOf(n, es) : es \in EdgeSets(n, MaxEdges)} : n \in 1..MaxTasks}

\* a planner answer that is any list of tasks each with a depends_on list:
\* ids may repeat, and depends_on may name the task itself, a later task or
\* an id no task has
ListTasks ==
    [id : 1..MaxListLen,
     depends_on : {d \in SUBSET (1..MaxListLen) : Cardinality(d) <= MaxDeps}]

TaskLists == UNION {[1..n -> ListTasks] : n \in 1..MaxListLen}

\* outcomes of one toolExecutor(task.tool, task.args) call: the promise
\* resolves with a result whose success is true ("ok"), resolves with a
\* failure result ("fail"), or rejects ("throw")
ToolOutcomes == {"ok", "fail", "throw"}

\* ------------------------------------------------------------------------
\* executeSwarm, piece by piece
\* ------------------------------------------------------------------------
\* .some in place of .every: one completed dependency is enough
DepsAnyCompleted(task, done) ==
    task.depends_on = {} \/ \E dep \in task.depends_on : dep \in done

\* task.depends_on.every(dep => completed.has(dep))
DepsCompleted(task, done) == \A dep \in task.depends_on : dep \in done

\* no dependency filter: every pending task is taken
RunnableAll(pend, done) == pend

\* only the first ready task is taken: one task per loop turn
RunnableOne(pend, done) ==
    LET ready == SelectSeq(pend, LAMBDA t : \A dep \in t.depends_on : dep \in done)
    IN  IF Len(ready) = 0 THEN ready ELSE <<ready[1]>>

\* pending.filter(task => task.depends_on.every(dep => completed.has(dep)))
Runnable(pend, done) == SelectSeq(pend, LAMBDA t : DepsCompleted(t, done))

\* a cap of one invocation per wavefront
LaunchFirst(run) == IF Len(run) = 0 THEN run ELSE <<run[1]>>

\* runnable.map(async (task) => {...}): the async body of every element is
\* entered, in array order, before Promise.all is awaited
Launch(run) == run

\* success is taken from the capability's own result
TaskResultFromCapability(outcome) ==
    IF outcome = "throw"
    THEN [success |-> FALSE, error |-> "thrown"]
    ELSE [success |-> (outcome = "ok"), result |-> outcome]

\* the value stored in results[task.id] by the try or the catch branch
TaskResult(outcome) ==
    IF outcome = "throw"
    THEN [success |-> FALSE, error |-> "thrown"]
    ELSE [success |-> TRUE, result |-> outcome]

\* the catch branch does not record the failure
StoreResultOnReturn(res, id, outcome) ==
    IF outcome = "throw" THEN res
    ELSE [k \in DOMAIN res \cup {id} |->
            IF k = id THEN TaskResult(outcome) ELSE res[k]]

\* the whole results object is replaced by the new entry
StoreResultFresh(res, id, outcome) == [k \in {id} |-> TaskResult(outcome)]

\* results[task.id] = ...
StoreResult(res, id, outcome) ==
    [k \in DOMAIN res \cup {id} |->
        IF k = id THEN TaskResult(outcome) ELSE res[k]]

\* completed.add(task.id) inside the try block only
MarkCompletedOnSuccess(done, id, outcome) ==
    IF outcome = "throw" THEN done ELSE done \cup {id}

\* completed.add(task.id), reached after the try and after the catch
MarkCompleted(done, id, outcome) == done \cup {id}

\* the progress event emitted when the executor settles
SettleEvent(id, outcome) ==
    IF outcome = "throw"
    THEN [type |-> "agent_error", agentId |-> id]
    ELSE [type |-> "agent_complete", agentId |-> id]

\* only the first task of a wavefront is announced
StartEventsFirstOnly(run, i) ==
    IF i > Len(run) THEN <<>>
    ELSE <<[type |-> "agent_start", agentId |-> run[i].id]>>

\* agent_start events of a wavefront, in array order
RECURSIVE StartEvents(_, _)
StartEvents(run, i) ==
    IF i > Len(run) THEN <<>>
    ELSE <<[type |-> "agent_start", agentId |-> run[i].id]>> \o StartEvents(run, i + 1)

\* this.activeAgents.push(...) for each started task, in array order
RECURSIVE PushAgents(_, _, _)
PushAgents(agents, run, i) ==
    IF i > Len(run) THEN agents
    ELSE PushAgents(Append(agents, run[i].id), run, i + 1)

\* the filter is inside the try block: a task that threw stays listed
RemoveAgentOnSuccess(agents, id, outcome) ==
    IF outcome = "throw" THEN agents ELSE SelectSeq(agents, LAMBDA a : a # id)

\* this.activeAgents = this.activeAgents.filter(a => a.id !== agentId),
\* reached after the try and after the catch
RemoveAgent(agents, id, outcome) == SelectSeq(agents, LAMBDA a : a # id)

\* the templated summary counts the successful operations only
synthesizeCountsSuccesses(modelOk, res) ==
    IF modelOk THEN [kind |-> "model"]
    ELSE [kind |-> "templated",
          count |-> Cardinality({k \in DOMAIN res : res[k].success})]

\* synthesize(): the model's content, or from the catch
\* `Tasks completed. ${Object.keys(results).length} operations executed.`
synthesize(modelOk, res) ==
    IF modelOk THEN [kind |-> "model"]
    ELSE [kind |-> "templated", count |-> Cardinality(DOMAIN res)]

\* for (const task of runnable) { idx = pending.findIndex(...); splice }
RECURSIVE RemoveRunnable(_, _, _)
RemoveRunnable(pend, run, i) ==
    IF i > Len(run) THEN pend
    ELSE LET idx == FindIndex(pend, run[i].id)
         IN  RemoveRunnable(IF idx # 0 THEN Splice(pend, idx) ELSE pend, run, i + 1)

\* the final event of a normal run: {type: 'done', results}
DoneEvent(res) == [type |-> "done", results |-> res]

\* ------------------------------------------------------------------------
\* Safety gate: terminal.js, and the shell command built by grepSearch
\* ------------------------------------------------------------------------
\* A text is a sequence of tokens; WS is one whitespace character.  The
\* texts fed to the tools are drawn from TextTokens, each of which is either
\* a literal of a pattern, whitespace, or a word that no pattern mentions.
WS == " "
TextTokens == {"rm", "RM", WS, "-rf", "/", "sudo", "ls"}

\* the texts of n tokens
TextsOfLen(n) == [1..n -> TextTokens]

Texts == UNION {TextsOfLen(n) : n \in 0..MaxTextLen}

\* atoms of a regular expression: a literal, \s+ and \s*
Lit(v) == [k |-> "lit", v |-> v]
Ws1 == [k |-> "ws1", v |-> WS]
Ws0 == [k |-> "ws0", v |-> WS]

\* const DANGEROUS_PATTERNS = [...]
DANGEROUS_PATTERNS ==
    << <<Lit("rm"), Ws1, Lit("-rf"), Ws1, Lit("/")>>,
       <<Lit("rm"), Ws1, Lit("-rf"), Ws1, Lit("~/")>>,
       <<Lit("sudo"), Ws1, Lit("rm")>>,
       <<Lit("mkfs.")>>,
       <<Lit("dd"), Ws1, Lit("if=")>>,
       <<Lit(">"), Ws0, Lit("/dev/sda")>>,
       <<Lit("chmod"), Ws1, Lit("-R"), Ws1, Lit("777"), Ws1, Lit("/")>>,
       <<Lit(":(){"), Ws0, Lit(":|:&"), Ws0, Lit("};:")>> >>

\* the atoms of pat from p on match the text from position i on
RECURSIVE MatchAt(_, _, _, _)
MatchAt(pat, p, text, i) ==
    IF p > Len(pat) THEN TRUE
    ELSE LET a == pat[p]
             here == i <= Len(text)
         IN  CASE a.k = "lit" ->
                    here /\ text[i] = a.v /\ MatchAt(pat, p + 1, text, i + 1)
               [] a.k = "ws1" ->
                    here /\ text[i] = WS
                         /\ (MatchAt(pat, p + 1, text, i + 1) \/ MatchAt(pat, p, text, i + 1))
               [] a.k = "ws0" ->
                    \/ MatchAt(pat, p + 1, text, i)
                    \/ here /\ text[i] = WS /\ MatchAt(pat, p, text, i + 1)

\* pattern.test(command): an unanchored, case-sensitive search
RegexTest(pat, text) == \E i \in 1..(Len(text) + 1) : MatchAt(pat, 1, text, i)

\* DANGEROUS_PATTERNS.some(pattern => pattern.test(command))
isDangerous(command) ==
    \E n \in 1..Len(DANGEROUS_PATTERNS) : RegexTest(DANGEROUS_PATTERNS[n], command)

\* the result returned when the gate refuses a command
SafetyBlocked == [success |-> FALSE, error |-> "SAFETY GATE"]

\* `grep ${flags} --include="${filePattern}" "${pattern}" "${directory}"
\*  2>/dev/null | head -n ${maxResults}`
GrepCommand(pattern, directory, filePattern) ==
    <<"grep", WS, "-n", WS, "-r", WS, "--include=", "\"">> \o filePattern \o <<"\"", WS, "\"">>
        \o pattern \o <<"\"", WS, "\"">> \o directory
        \o <<"\"", WS, "2>/dev/null", WS, "|", WS, "head", WS, "-n", WS, "50">>

\* how a child process started by exec can end
ExecOutcomes == {"exit0_output", "exit0_empty", "exit1_quiet", "exit_error", "timeout", "maxbuffer"}

\* a killed child's output is returned as if the command had finished
RunCommandResultPartial(outcome) ==
    IF outcome \in {"exit0_output", "exit0_empty", "timeout", "maxbuffer"}
    THEN [success |-> TRUE, stdout |-> outcome]
    ELSE [success |-> FALSE, error |-> outcome]

\* runCommand: what the try and the catch around execAsync return
RunCommandResult(outcome) ==
    IF outcome \in {"exit0_output", "exit0_empty"}
    THEN [success |-> TRUE, stdout |-> outcome]
    ELSE [success |-> FALSE, error |-> outcome]

\* grepSearch: what the try and the catch around execAsync return
GrepSearchResult(outcome) ==
    IF outcome = "exit0_output" THEN [success |-> TRUE, matches |-> "some"]
    ELSE IF outcome \in {"exit0_empty", "exit1_quiet"} THEN [success |-> TRUE, matches |-> "none"]
    ELSE [success |-> FALSE, error |-> outcome]

\* the calls made to executeTool: a command for run_command, and for
\* grep_search a text carried by the pattern or by the directory argument
RunCommandCalls(t) == {[tool |-> "run_command", command |-> t]}

GrepSearchCalls(t) ==
    {[tool |-> "grep_search", pattern |-> t, directory |-> <<"dir">>],
     [tool |-> "grep_search", pattern |-> <<"todo">>, directory |-> t]}

\* the shell text a call would run
ShellText(call) ==
    IF call.tool = "run_command" THEN call.command
    ELSE GrepCommand(call.pattern, call.directory, <<"*">>)

NoCall == [tool |-> "none"]
NoResult == [success |-> FALSE, error |-> "pending"]

GateIdle ==
    /\ g_pc = "idle"
    /\ g_call = NoCall
    /\ g_spawned = <<>>
    /\ g_result = NoResult

\* executeTool('run_command', args) -> runCommand(args.command): the gate
\* answers at once, or the command is handed to exec
RunCommandCall ==
    /\ g_pc = "idle"
    /\ \E t \in Texts : \E call \in RunCommandCalls(t) :
        /\ g_call' = call
        /\ IF isDangerous(call.command)
           THEN /\ g_result' = SafetyBlocked
                /\ g_pc' = "returned"
                /\ UNCHANGED g_spawned
           ELSE /\ g_spawned' = Append(g_spawned, call.command)
                /\ g_pc' = "exec"
                /\ UNCHANGED g_result
    /\ UNCHANGED <<swarmVars, chatVars, dispVars>>

\* executeTool('grep_search', args) -> grepSearch(pattern, directory,
\* {filePattern: '*'}): the command is built and handed to exec
GrepSearchCall ==
    /\ g_pc = "idle"
    /\ \E t \in Texts : \E call \in GrepSearchCalls(t) :
        /\ g_call' = call
        /\ g_spawned' = Append(g_spawned, GrepCommand(call.pattern, call.directory, <<"*">>))
    /\ g_pc' = "exec"
    /\ UNCHANGED g_result
    /\ UNCHANGED <<swarmVars, chatVars, dispVars>>

\* the child process ends and the tool returns
ExecSettle(outcome) ==
    /\ g_pc = "exec"
    /\ g_result' = IF g_call.tool = "run_command"
                   THEN RunCommandResult(outcome)
                   ELSE GrepSearchResult(outcome)
    /\ g_pc' = "returned"
    /\ UNCHANGED <<g_call, g_spawned>>
    /\ UNCHANGED <<swarmVars, chatVars, dispVars>>

GateNext ==
    \/ RunCommandCall
    \/ GrepSearchCall
    \/ \E o \in ExecOutcomes : ExecSettle(o)

\* ------------------------------------------------------------------------
\* The capability dispatchers: executeTool (server.js) and executeToolCall
\* ------------------------------------------------------------------------
\* capability names: three of the catalog and one that is in no catalog
ToolNames == {"read_file", "write_file", "run_command", "no_such_tool"}

\* the case labels of the two switch statements, among ToolNames
KnownTools == {"read_file", "write_file", "edit_file", "run_command"}

ArgKeys == {"path", "content", "command"}

\* required: [...] of the capability's schema in TOOLS
RequiredArgs(name) ==
    CASE name = "read_file" -> {"path"}
      [] name = "write_file" -> {"path", "content"}
      [] name = "edit_file" -> {"path", "old_text", "new_text"}
      [] name = "run_command" -> {"command"}
      [] OTHER -> {}

\* command texts a run_command call can carry
Commands == {<<"ls">>, <<"sudo", WS, "rm">>}

\* absolute, normalized paths a file capability can be given, as tokens:
\* one under a system directory and one elsewhere
SafePath == <<"/", "tmp", "/", "new", "/", "a.txt">>
SystemPath == <<"/", "etc", "/", "new", "/", "a.conf">>
Paths == {SafePath, SystemPath}

\* path.dirname(filePath)
Dirname(filePath) == SubSeq(filePath, 1, Len(filePath) - 2)

\* const DANGEROUS_PATHS = ['/etc', '/usr', '/bin', '/sbin', '/var',
\*                          '/private', '/System']
DANGEROUS_PATHS ==
    {<<"/", "etc">>, <<"/", "usr">>, <<"/", "bin">>, <<"/", "sbin">>,
     <<"/", "var">>, <<"/", "private">>, <<"/", "System">>}

\* resolved.startsWith(dangerous)
StartsWith(text, prefix) ==
    Len(prefix) <= Len(text) /\ SubSeq(text, 1, Len(prefix)) = prefix

\* isDangerousPath(filePath): path.resolve leaves an absolute, normalized
\* path as it is
isDangerousPath(filePath) ==
    \E dangerous \in DANGEROUS_PATHS : StartsWith(filePath, dangerous)

\* the text a write_file call can carry, and what a file can hold; a text
\* is a sequence of tokens
NewContent == <<"b">>
Contents == {<<"a">>, NewContent}

\* toolCall.function.arguments / task.args: undefined, or an object holding
\* some of the keys; path, content and command are the values under the
\* keys that are present
ArgMappings ==
    {[defined |-> FALSE, keys |-> {}, path |-> <<>>, content |-> <<>>, command |-> <<>>]}
    \cup UNION {
           {[defined |-> TRUE, keys |-> ks,
             path |-> p, content |-> IF "content" \in ks THEN NewContent ELSE <<>>,
             command |-> c] :
                p \in IF "path" \in ks THEN Paths ELSE {<<>>},
                c \in IF "command" \in ks THEN Commands ELSE {<<>>}} :
           ks \in SUBSET ArgKeys}

\* the arguments a call of a capability carries: undefined, or some of the
\* properties of the capability's schema
ArgsFor(name) == {args \in ArgMappings : args.keys \subseteq RequiredArgs(name)}

\* args[k] is a value (not undefined)
Has(args, k) == args.defined /\ k \in args.keys

\* the files and directories the capabilities work on: the directories that
\* exist and what each existing file holds; a file exists only in a directory
\* that does
FileSystemsOver(paths, contents) ==
    UNION {{[dirs |-> ds, files |-> f] :
               ds \in {d \in SUBSET {Dirname(p) : p \in paths} :
                          \A p \in existing : Dirname(p) \in d},
               f \in [existing -> contents]} :
           existing \in SUBSET paths}

FileSystems == FileSystemsOver(Paths, Contents)

NoFiles == [dirs |-> {}, files |-> [p \in {} |-> <<>>]]

\* fs.existsSync(filePath)
Exists(fs, filePath) == filePath \in DOMAIN fs.files

\* what a call finds besides the files: how a started process ends and the
\* milliseconds Date.now() advances; each varies only where it is looked at
Environments(dispatcher, name) ==
    [exec : IF name = "run_command" THEN {"exit0_output", "exit_error"} ELSE {"exit0_output"},
     elapsed : IF dispatcher = "executeToolCall" THEN 0..MaxElapsed ELSE {0}]

\* { success: false, error: error.message }
Failure(msg) == [success |-> FALSE, error |-> msg]

\* what a handler did: the value it returned, its effects, the files after it
Handled(result, effects, fs) ==
    [thrown |-> FALSE, result |-> result, effects |-> effects, fs |-> fs]

\* a rejection that reaches the caller of the dispatcher
Thrown(fs) ==
    [thrown |-> TRUE, result |-> [error |-> "TypeError"], effects |-> {}, fs |-> fs]

\* options = {}: no force
NoOptions == [force |-> FALSE]

\* fs.mkdirSync(dir, { recursive: true })
MkDir(fs, dir) == [fs EXCEPT !.dirs = @ \cup {dir}]

\* fs.writeFileSync(filePath, content, 'utf-8')
WriteFile(fs, filePath, content) ==
    [fs EXCEPT !.files = [p \in DOMAIN @ \cup {filePath} |->
                             IF p = filePath THEN content ELSE @[p]]]

\* filesystem.js readFile: path.resolve(undefined) throws inside the try
FsReadFile(args, fs) ==
    IF ~Has(args, "path") THEN Handled(Failure("TypeError"), {}, fs)
    ELSE IF ~Exists(fs, args.path) THEN Handled(Failure("File not found"), {}, fs)
    ELSE Handled([success |-> TRUE, content |-> fs.files[args.path]], {}, fs)

\* writeFile that opens the file with the flag wx: an existing file is an error
FsWriteFileExclusive(args, options, fs) ==
    IF ~Has(args, "path") THEN Handled(Failure("TypeError"), {}, fs)
    ELSE IF isDangerousPath(args.path) /\ ~options.force
         THEN Handled(Failure("not allowed"), {}, fs)
    ELSE LET dir == Dirname(args.path)
             missing == dir \notin fs.dirs
             made == IF missing THEN MkDir(fs, dir) ELSE fs
             effects == IF missing THEN {"mkdir"} ELSE {}
         IN  IF ~Has(args, "content") THEN Handled(Failure("TypeError"), effects, made)
             ELSE IF Exists(fs, args.path)
                  THEN Handled(Failure("EEXIST"), effects, made)
                  ELSE Handled([success |-> TRUE, path |-> args.path, created |-> FALSE],
                               effects \cup {"write"},
                               WriteFile(made, args.path, args.content))

\* filesystem.js writeFile(filePath, content, options = {}): the denylist,
\* then the directory, then the write; the directory is created before
\* writeFileSync looks at content, which throws on undefined; created is
\* read after the write, when the file exists
FsWriteFile(args, options, fs) ==
    IF ~Has(args, "path") THEN Handled(Failure("TypeError"), {}, fs)
    ELSE IF isDangerousPath(args.path) /\ ~options.force
         THEN Handled(Failure("not allowed"), {}, fs)
    ELSE LET dir == Dirname(args.path)
             missing == dir \notin fs.dirs
             made == IF missing THEN MkDir(fs, dir) ELSE fs
             effects == IF missing THEN {"mkdir"} ELSE {}
         IN  IF ~Has(args, "content") THEN Handled(Failure("TypeError"), effects, made)
             ELSE Handled([success |-> TRUE, path |-> args.path, created |-> FALSE],
                          effects \cup {"write"},
                          WriteFile(made, args.path, args.content))

\* the tokens of an edited file and of a search text; a replacement text can
\* also hold the pattern $&, which String.prototype.replace expands to the
\* matched text
EditTokens == {"a", "b"}
MatchedPattern == "$&"

TokenTexts(tokens, lengths) == UNION {[1..n -> tokens] : n \in lengths}

EditContents == TokenTexts(EditTokens, 0..MaxContentLen)
SearchTexts == TokenTexts(EditTokens, 0..(MaxContentLen - 1))
ReplacementTexts == TokenTexts(EditTokens \cup {MatchedPattern}, 0..1)

\* content.indexOf(text) + 1: where text first occurs in content, 0 for
\* nowhere; the empty text occurs at the start
IndexOf(content, text) ==
    LET at == {p \in 1..(Len(content) - Len(text) + 1) :
                  SubSeq(content, p, p + Len(text) - 1) = text}
    IN  IF at = {} THEN 0 ELSE CHOOSE p \in at : \A q \in at : p <= q

\* content.includes(text)
Includes(content, text) == IndexOf(content, text) # 0

\* the replacement with its patterns expanded
RECURSIVE Expand(_, _)
Expand(replacement, matched) ==
    IF replacement = <<>> THEN <<>>
    ELSE (IF Head(replacement) = MatchedPattern THEN matched ELSE <<Head(replacement)>>)
            \o Expand(Tail(replacement), matched)

\* content.replaceAll(text, replacement)
RECURSIVE ReplaceAll(_, _, _)
ReplaceAll(content, text, replacement) ==
    LET p == IndexOf(content, text)
    IN  IF p = 0 THEN content
        ELSE IF text = <<>> THEN Expand(replacement, text) \o content
        ELSE SubSeq(content, 1, p - 1) \o Expand(replacement, text)
                \o ReplaceAll(SubSeq(content, p + Len(text), Len(content)), text, replacement)

\* content.replace(text, replacement) with a string for a pattern: the first
\* occurrence only
Replace(content, text, replacement) ==
    LET p == IndexOf(content, text)
    IN  IF p = 0 THEN content
        ELSE SubSeq(content, 1, p - 1) \o Expand(replacement, text)
                \o SubSeq(content, p + Len(text), Len(content))

\* editFile(filePath, searchContent, replaceContent) of the promise-based
\* file module: fs.readFile rejects on a missing file, inside the try
FsEditFile(args, fs) ==
    IF ~Has(args, "path") THEN Handled(Failure("TypeError"), {}, fs)
    ELSE IF ~Exists(fs, args.path) THEN Handled(Failure("ENOENT"), {}, fs)
    ELSE LET content == fs.files[args.path]
         IN  IF ~Includes(content, args.old_text)
             THEN Handled(Failure("Search content not found"), {}, fs)
             ELSE Handled([success |-> TRUE, message |-> "File edited successfully"],
                          {"write"},
                          WriteFile(fs, args.path,
                                    Replace(content, args.old_text, args.new_text)))

\* terminal.js runCommand: the gate, then exec, which throws inside the try
\* on an undefined command
TermRunCommand(args, fs, env) ==
    IF ~Has(args, "command") THEN Handled(Failure("TypeError"), {}, fs)
    ELSE IF isDangerous(args.command) THEN Handled(SafetyBlocked, {}, fs)
    ELSE Handled(RunCommandResult(env.exec), {"spawn"}, fs)

\* async function executeTool(toolName, args): no try around the switch;
\* every case reads args.<key> before it calls the handler
executeTool(toolName, args, fs, env) ==
    IF toolName \notin KnownTools THEN Handled([error |-> "Unknown tool"], {}, fs)
    ELSE IF ~args.defined THEN Thrown(fs)
    ELSE CASE toolName = "read_file" -> FsReadFile(args, fs)
           [] toolName = "write_file" -> FsWriteFile(args, NoOptions, fs)
           [] toolName = "edit_file" -> FsEditFile(args, fs)
           [] toolName = "run_command" -> TermRunCommand(args, fs, env)

\* executeToolCall, case 'read_file'
CallReadFile(args, fs) ==
    IF ~Has(args, "path") THEN Handled(Failure("TypeError"), {}, fs)
    ELSE IF ~Exists(fs, args.path) THEN Handled(Failure("File not found"), {}, fs)
    ELSE Handled([success |-> TRUE, content |-> fs.files[args.path]], {}, fs)

\* executeToolCall, case 'write_file': the directory and the write, with no
\* look at the denylist
CallWriteFile(args, fs) ==
    IF ~Has(args, "path") THEN Handled(Failure("TypeError"), {}, fs)
    ELSE LET dir == Dirname(args.path)
             missing == dir \notin fs.dirs
             made == IF missing THEN MkDir(fs, dir) ELSE fs
             effects == IF missing THEN {"mkdir"} ELSE {}
         IN  IF ~Has(args, "content") THEN Handled(Failure("TypeError"), effects, made)
             ELSE Handled([success |-> TRUE, path |-> args.path,
                           message |-> "File written successfully"],
                          effects \cup {"write"},
                          WriteFile(made, args.path, args.content))

\* executeToolCall, case 'edit_file'
CallEditFile(args, fs) ==
    IF ~Has(args, "path") THEN Handled(Failure("TypeError"), {}, fs)
    ELSE IF ~Exists(fs, args.path) THEN Handled(Failure("File not found"), {}, fs)
    ELSE LET content == fs.files[args.path]
         IN  IF ~Includes(content, args.old_text)
             THEN Handled(Failure("Old text not found in file"), {}, fs)
             ELSE Handled([success |-> TRUE, path |-> args.path],
                          {"write"},
                          WriteFile(fs, args.path,
                                    Replace(content, args.old_text, args.new_text)))

\* return { ...result, executionTime: Date.now() - startTime }
WithExecutionTime(result, elapsed) ==
    [k \in DOMAIN result \cup {"executionTime"} |->
        IF k = "executionTime" THEN elapsed ELSE result[k]]

\* async function executeToolCall(name, args): the switch is inside a try
\* whose catch turns every error into a failure result
executeToolCall(name, args, fs, env) ==
    LET inner ==
            IF name \notin KnownTools THEN Handled(Failure("Unknown tool"), {}, fs)
            ELSE IF ~args.defined THEN Handled(Failure("TypeError"), {}, fs)
            ELSE CASE name = "read_file" -> CallReadFile(args, fs)
                   [] name = "write_file" -> CallWriteFile(args, fs)
                   [] name = "edit_file" -> CallEditFile(args, fs)
                   [] name = "run_command" -> TermRunCommand(args, fs, env)
    IN  Handled(WithExecutionTime(inner.result, env.elapsed), inner.effects, inner.fs)

NoDispatch == [dispatcher |-> "none"]

\* the two functions that map a capability name to its handler
Dispatchers == {"executeTool", "executeToolCall"}

DispatchIdle ==
    /\ d_pc = "idle"
    /\ d_call = NoDispatch
    /\ d_prev = NoDispatch
    /\ d_result = NoResult
    /\ d_effects = {}
    /\ d_count = 0
    /\ d_fs = NoFiles

\* one call of a dispatcher, from the call to the settling of its promise
Dispatched(dispatcher, name, args, options, done) ==
    /\ d_call' = [dispatcher |-> dispatcher, name |-> name, args |-> args,
                  options |-> options]
    /\ d_prev' = d_call
    /\ d_pc' = IF done.thrown THEN "thrown" ELSE "returned"
    /\ d_result' = done.result
    /\ d_effects' = done.effects
    /\ d_fs' = done.fs
    /\ d_count' = d_count + 1

\* await executeTool(toolName, toolArgs)
ExecuteTool ==
    /\ d_count < MaxInvocations
    /\ \E name \in ToolNames :
          \E args \in ArgsFor(name), env \in Environments("executeTool", name) :
              Dispatched("executeTool", name, args, NoOptions,
                         executeTool(name, args, d_fs, env))
    /\ UNCHANGED <<swarmVars, gateVars, chatVars>>

\* await executeToolCall(toolName, toolArgs)
ExecuteToolCall ==
    /\ d_count < MaxInvocations
    /\ \E name \in ToolNames :
          \E args \in ArgsFor(name), env \in Environments("executeToolCall", name) :
              Dispatched("executeToolCall", name, args, NoOptions,
                         executeToolCall(name, args, d_fs, env))
    /\ UNCHANGED <<swarmVars, gateVars, chatVars>>

\* filesystemTool.writeFile(filePath, content, options) called by itself,
\* the one call that can carry the force option
WriteFileCall ==
    /\ d_count < MaxInvocations
    /\ \E args \in {a \in ArgsFor("write_file") : a.defined},
          options \in [force : BOOLEAN] :
              Dispatched("writeFile", "write_file", args, options,
                         FsWriteFile(args, options, d_fs))
    /\ UNCHANGED <<swarmVars, gateVars, chatVars>>

\* the arguments of an edit_file call: a path, the text searched for and
\* the text put in its place
EditArgs ==
    {[defined |-> TRUE, keys |-> {"path", "old_text", "new_text"},
      path |-> SafePath, content |-> <<>>, command |-> <<>>,
      old_text |-> old, new_text |-> new] :
        old \in SearchTexts, new \in ReplacementTexts}

\* await executeTool('edit_file', args), once
EditViaExecuteTool ==
    /\ d_count = 0
    /\ \E args \in EditArgs, env \in Environments("executeTool", "edit_file") :
          Dispatched("executeTool", "edit_file", args, NoOptions,
                     executeTool("edit_file", args, d_fs, env))
    /\ UNCHANGED <<swarmVars, gateVars, chatVars>>

\* await executeToolCall('edit_file', args), once
EditViaExecuteToolCall ==
    /\ d_count = 0
    /\ \E args \in EditArgs, env \in Environments("executeToolCall", "edit_file") :
          Dispatched("executeToolCall", "edit_file", args, NoOptions,
                     executeToolCall("edit_file", args, d_fs, env))
    /\ UNCHANGED <<swarmVars, gateVars, chatVars>>

EditNext ==
    \/ EditViaExecuteTool
    \/ EditViaExecuteToolCall

DispatchNext ==
    \/ ExecuteTool
    \/ ExecuteToolCall
    \/ WriteFileCall

\* ------------------------------------------------------------------------
\* Single-agent loop: POST /chat and POST /api/chat
\* ------------------------------------------------------------------------
\* const MAX_ITERATIONS = 10 (POST /chat)
MAX_ITERATIONS == 10
\* const MAX_TOOL_ITERATIONS = 10 (POST /api/chat)
MAX_TOOL_ITERATIONS == 10

\* off by one: iterations <= MAX_ITERATIONS
UnderCapInclusive(iterations) == iterations <= MAX_ITERATIONS

\* POST /chat: the loop condition iterations < MAX_ITERATIONS
UnderCap(iterations) == iterations < MAX_ITERATIONS

\* POST /api/chat: the loop condition iterations < MAX_TOOL_ITERATIONS
UnderToolCap(iterations) == iterations < MAX_TOOL_ITERATIONS

\* a model response: the number of tool_calls and whether content is non-empty
Responses == [calls : 0..MaxCalls, content : BOOLEAN]
NoResponse == [calls |-> 0, content |-> FALSE]

\* the responses the model gives to the next request of a turn: a final
\* answer, or tool calls, as many in every tool-requesting response of one
\* turn (1..MaxCalls, chosen with the first of them)
ModelResponses ==
    {r \in Responses : r.calls = 0 \/ ch_rounds = 0 \/ r.calls = ch_resp.calls}

\* content of a non-streamed response, as a sequence of fragments; a
\* fragment is named by the order of its production, 0 being the content of
\* the non-streamed response
ContentOf(resp) == IF resp.content THEN <<0>> ELSE <<>>

\* what the n-th chunk of the stream can carry: fragment n, or no content
ChunkContents(n) == {<<>>, <<n>>}

\* the new fragment is put before what was accumulated
AccumulatePrepend(fullResponse, content) == content \o fullResponse

\* fullResponse += chunk.message.content
Accumulate(fullResponse, content) == fullResponse \o content

\* the tool messages of the turn that report a failure
FailedSoFar == {n \in 1..Len(ch_messages) :
                  ch_messages[n].role = "tool" /\ ~ch_messages[n].success}

\* outcomes of executeTool (POST /chat): a result, a failure result, or a
\* rejection (a handler called with undefined arguments)
ChatToolOutcomes ==
    {"ok", "throw"} \cup (IF Cardinality(FailedSoFar) < MaxToolFailures THEN {"fail"} ELSE {})

\* outcomes of executeToolCall (POST /api/chat), which catches every error
ApiToolOutcomes ==
    {"ok"} \cup (IF Cardinality(FailedSoFar) < MaxToolFailures THEN {"fail"} ELSE {})

ToolMessage(round, idx, outcome) ==
    [role |-> "tool", success |-> (outcome = "ok"), round |-> round, idx |-> idx]

AssistantMessage(resp) == [role |-> "assistant", calls |-> resp.calls]

\* only the last invocation record is kept on the saved message
SavedMessageLastRecord(content, toolCalls) ==
    IF Len(toolCalls) > 0
    THEN [role |-> "assistant", content |-> content,
          toolCalls |-> SubSeq(toolCalls, Len(toolCalls), Len(toolCalls))]
    ELSE [role |-> "assistant", content |-> content]

\* conv.messages.push({ role: 'assistant', content: fullResponse,
\*   toolCalls: toolCalls.length > 0 ? toolCalls : undefined, ... }):
\* an undefined toolCalls is a message without the field
SavedMessage(content, toolCalls) ==
    IF Len(toolCalls) > 0
    THEN [role |-> "assistant", content |-> content, toolCalls |-> toolCalls]
    ELSE [role |-> "assistant", content |-> content]

ChatIdle ==
    /\ ch_handler = "none"
    /\ ch_pc = "idle"
    /\ ch_iterations = 0
    /\ ch_rounds = 0
    /\ ch_resp = NoResponse
    /\ ch_idx = 0
    /\ ch_messages = <<>>
    /\ ch_toolCalls = <<>>
    /\ ch_full = <<>>
    /\ ch_chunks = 0
    /\ ch_conv = <<>>
    /\ ch_events = <<>>

\* POST /chat up to its first model request: thinking is written, the loop
\* is entered and iterations becomes 1
ChatReceive ==
    /\ ch_pc = "idle"
    /\ ch_handler' = "chat"
    /\ ch_messages' = <<[role |-> "system"], [role |-> "user"]>>
    /\ ch_events' = <<[type |-> "thinking"]>>
    /\ ch_iterations' = 1
    /\ ch_pc' = "request"
    /\ UNCHANGED <<ch_rounds, ch_resp, ch_idx, ch_toolCalls, ch_full, ch_chunks, ch_conv>>
    /\ UNCHANGED <<swarmVars, gateVars, dispVars>>

\* POST /chat: ollamaClient.chat rejects; the catch writes error and ends
ChatModelError ==
    /\ ch_handler = "chat" /\ ch_pc = "request"
    /\ ch_events' = Append(ch_events, [type |-> "error"])
    /\ ch_pc' = "ended"
    /\ UNCHANGED <<ch_handler, ch_iterations, ch_rounds, ch_resp, ch_idx, ch_messages,
                   ch_toolCalls, ch_full, ch_chunks, ch_conv>>
    /\ UNCHANGED <<swarmVars, gateVars, dispVars>>

\* POST /chat: a response without tool calls: message, then done
ChatFinalAnswer ==
    /\ ch_handler = "chat" /\ ch_pc = "request"
    /\ \E resp \in ModelResponses :
        /\ resp.calls = 0
        /\ ch_resp' = resp
        /\ ch_events' = ch_events \o <<[type |-> "message", content |-> ContentOf(resp)],
                                      [type |-> "done"]>>
    /\ ch_pc' = "ended"
    /\ UNCHANGED <<ch_handler, ch_iterations, ch_rounds, ch_idx, ch_messages,
                   ch_toolCalls, ch_full, ch_chunks, ch_conv>>
    /\ UNCHANGED <<swarmVars, gateVars, dispVars>>

\* POST /chat: a response with tool calls: the assistant message is pushed
\* and the first invocation is announced and started
ChatToolRound ==
    /\ ch_handler = "chat" /\ ch_pc = "request"
    /\ \E resp \in ModelResponses :
        /\ resp.calls > 0
        /\ ch_resp' = resp
        /\ ch_messages' = Append(ch_messages, AssistantMessage(resp))
    /\ ch_rounds' = ch_rounds + 1
    /\ ch_idx' = 1
    /\ ch_events' = Append(ch_events, [type |-> "tool_call", round |-> ch_rounds + 1, idx |-> 1])
    /\ ch_pc' = "tool"
    /\ UNCHANGED <<ch_handler, ch_iterations, ch_toolCalls, ch_full, ch_chunks, ch_conv>>
    /\ UNCHANGED <<swarmVars, gateVars, dispVars>>

\* no catch around the loop: the rejection ends the handler, nothing is
\* written and the response is never ended
ChatToolThrowUnhandled ==
    /\ ch_handler = "chat" /\ ch_pc = "tool"
    /\ "throw" \in ChatToolOutcomes
    /\ ch_pc' = "crashed"
    /\ UNCHANGED <<ch_handler, ch_iterations, ch_rounds, ch_resp, ch_idx, ch_messages,
                   ch_toolCalls, ch_full, ch_chunks, ch_conv, ch_events>>
    /\ UNCHANGED <<swarmVars, gateVars, dispVars>>

\* POST /chat: executeTool rejects; the catch writes error and ends
ChatToolThrow ==
    /\ ch_handler = "chat" /\ ch_pc = "tool"
    /\ "throw" \in ChatToolOutcomes
    /\ ch_events' = Append(ch_events, [type |-> "error"])
    /\ ch_pc' = "ended"
    /\ UNCHANGED <<ch_handler, ch_iterations, ch_rounds, ch_resp, ch_idx, ch_messages,
                   ch_toolCalls, ch_full, ch_chunks, ch_conv>>
    /\ UNCHANGED <<swarmVars, gateVars, dispVars>>

\* POST /chat: executeTool resolves: tool_result is written and the tool
\* message pushed; then the next invocation starts, or the round ends and
\* the while condition decides between another request and done
ChatToolSettle ==
    /\ ch_handler = "chat" /\ ch_pc = "tool"
    /\ \E outcome \in ChatToolOutcomes \ {"throw"} :
        LET result == [type |-> "tool_result", round |-> ch_rounds, idx |-> ch_idx,
                       success |-> (outcome = "ok")]
            written == Append(ch_events, result)
        IN
        /\ ch_messages' = Append(ch_messages, ToolMessage(ch_rounds, ch_idx, outcome))
        /\ IF ch_idx < ch_resp.calls
           THEN /\ ch_idx' = ch_idx + 1
                /\ ch_events' = Append(written,
                        [type |-> "tool_call", round |-> ch_rounds, idx |-> ch_idx + 1])
                /\ UNCHANGED <<ch_pc, ch_iterations>>
           ELSE /\ ch_idx' = 0
                /\ IF UnderCap(ch_iterations)
                   THEN /\ ch_events' = Append(written, [type |-> "thinking"])
                        /\ ch_iterations' = ch_iterations + 1
                        /\ ch_pc' = "request"
                   ELSE /\ ch_events' = Append(written, [type |-> "done"])
                        /\ ch_pc' = "ended"
                        /\ UNCHANGED ch_iterations
    /\ UNCHANGED <<ch_handler, ch_rounds, ch_resp, ch_toolCalls, ch_full, ch_chunks, ch_conv>>
    /\ UNCHANGED <<swarmVars, gateVars, dispVars>>

\* POST /api/chat up to its first model request: the user message is stored,
\* ollamaMessages built and thinking written
ApiReceive ==
    /\ ch_pc = "idle"
    /\ ch_handler' = "api_chat"
    /\ ch_conv' = <<[role |-> "user"]>>
    /\ ch_messages' = <<[role |-> "system"], [role |-> "user"]>>
    /\ ch_events' = <<[type |-> "thinking"]>>
    /\ ch_pc' = "request"
    /\ UNCHANGED <<ch_iterations, ch_rounds, ch_resp, ch_idx, ch_toolCalls, ch_full, ch_chunks>>
    /\ UNCHANGED <<swarmVars, gateVars, dispVars>>

\* the catch takes the user message back out of the conversation
ApiModelErrorRollsBack ==
    /\ ch_handler = "api_chat" /\ ch_pc \in {"request", "stream"}
    /\ ch_events' = Append(ch_events, [type |-> "error"])
    /\ ch_conv' = SubSeq(ch_conv, 1, Len(ch_conv) - 1)
    /\ ch_pc' = "ended"
    /\ UNCHANGED <<ch_handler, ch_iterations, ch_rounds, ch_resp, ch_idx, ch_messages,
                   ch_toolCalls, ch_full, ch_chunks>>
    /\ UNCHANGED <<swarmVars, gateVars, dispVars>>

\* the catch falls through to the end of the try: error, then complete
ApiModelErrorThenComplete ==
    /\ ch_handler = "api_chat" /\ ch_pc \in {"request", "stream"}
    /\ ch_events' = ch_events \o <<[type |-> "error"], [type |-> "complete"]>>
    /\ ch_pc' = "ended"
    /\ UNCHANGED <<ch_handler, ch_iterations, ch_rounds, ch_resp, ch_idx, ch_messages,
                   ch_toolCalls, ch_full, ch_chunks, ch_conv>>
    /\ UNCHANGED <<swarmVars, gateVars, dispVars>>

\* POST /api/chat: a model request (tool-enabled or streamed) rejects, or
\* the stream fails while it is read; the catch writes error, res.end()
ApiModelError ==
    /\ ch_handler = "api_chat" /\ ch_pc \in {"request", "stream"}
    /\ ch_events' = Append(ch_events, [type |-> "error"])
    /\ ch_pc' = "ended"
    /\ UNCHANGED <<ch_handler, ch_iterations, ch_rounds, ch_resp, ch_idx, ch_messages,
                   ch_toolCalls, ch_full, ch_chunks, ch_conv>>
    /\ UNCHANGED <<swarmVars, gateVars, dispVars>>

\* POST /api/chat: a response arrives and the while condition holds: the
\* first invocation of the round is announced and started
ApiToolRound ==
    /\ ch_handler = "api_chat" /\ ch_pc = "request"
    /\ UnderToolCap(ch_iterations)
    /\ \E resp \in ModelResponses :
        /\ resp.calls > 0
        /\ ch_resp' = resp
    /\ ch_iterations' = ch_iterations + 1
    /\ ch_rounds' = ch_rounds + 1
    /\ ch_idx' = 1
    /\ ch_events' = Append(ch_events, [type |-> "tool_start", round |-> ch_rounds + 1, idx |-> 1])
    /\ ch_pc' = "tool"
    /\ UNCHANGED <<ch_handler, ch_messages, ch_toolCalls, ch_full, ch_chunks, ch_conv>>
    /\ UNCHANGED <<swarmVars, gateVars, dispVars>>

\* POST /api/chat: executeToolCall resolves: tool_complete, the record in
\* toolCalls, the assistant and tool messages; then the next invocation, or
\* thinking and the next model request
ApiToolSettle ==
    /\ ch_handler = "api_chat" /\ ch_pc = "tool"
    /\ \E outcome \in ApiToolOutcomes :
        /\ ch_toolCalls' = Append(ch_toolCalls,
                [round |-> ch_rounds, idx |-> ch_idx, success |-> (outcome = "ok")])
        /\ ch_messages' = ch_messages \o
                <<AssistantMessage(ch_resp), ToolMessage(ch_rounds, ch_idx, outcome)>>
        /\ LET written == Append(ch_events,
                    [type |-> "tool_complete", round |-> ch_rounds, idx |-> ch_idx,
                     success |-> (outcome = "ok")])
           IN  IF ch_idx < ch_resp.calls
               THEN /\ ch_idx' = ch_idx + 1
                    /\ ch_events' = Append(written,
                            [type |-> "tool_start", round |-> ch_rounds, idx |-> ch_idx + 1])
                    /\ UNCHANGED ch_pc
               ELSE /\ ch_idx' = 0
                    /\ ch_events' = Append(written, [type |-> "thinking"])
                    /\ ch_pc' = "request"
    /\ UNCHANGED <<ch_handler, ch_iterations, ch_rounds, ch_resp, ch_full, ch_chunks, ch_conv>>
    /\ UNCHANGED <<swarmVars, gateVars, dispVars>>

\* POST /api/chat: a response arrives and the while condition fails (no
\* tool calls, or the cap is reached): streaming is written and the
\* streamed request, without tools, is made
ApiStartStreaming ==
    /\ ch_handler = "api_chat" /\ ch_pc = "request"
    /\ \E resp \in ModelResponses :
        /\ resp.calls = 0 \/ ~UnderToolCap(ch_iterations)
        /\ ch_resp' = resp
    /\ ch_events' = Append(ch_events, [type |-> "streaming"])
    /\ ch_pc' = "stream"
    /\ UNCHANGED <<ch_handler, ch_iterations, ch_rounds, ch_idx, ch_messages,
                   ch_toolCalls, ch_full, ch_chunks, ch_conv>>
    /\ UNCHANGED <<swarmVars, gateVars, dispVars>>

\* POST /api/chat: one chunk of the stream; content is appended to
\* fullResponse and written as a token
ApiStreamChunk ==
    /\ ch_handler = "api_chat" /\ ch_pc = "stream"
    /\ ch_chunks < MaxChunks
    /\ ch_chunks' = ch_chunks + 1
    /\ \E c \in ChunkContents(ch_chunks + 1) :
        IF c # <<>>
        THEN /\ ch_full' = Accumulate(ch_full, c)
             /\ ch_events' = Append(ch_events, [type |-> "token", content |-> c])
        ELSE UNCHANGED <<ch_full, ch_events>>
    /\ UNCHANGED <<ch_handler, ch_pc, ch_iterations, ch_rounds, ch_resp, ch_idx,
                   ch_messages, ch_toolCalls, ch_conv>>
    /\ UNCHANGED <<swarmVars, gateVars, dispVars>>

\* complete is sent before the fallback token
ApiStreamEndCompleteFirst ==
    /\ ch_handler = "api_chat" /\ ch_pc = "stream"
    /\ LET fallback == ch_full = <<>> /\ ch_resp.content
           full == IF fallback THEN ContentOf(ch_resp) ELSE ch_full
           written == Append(ch_events, [type |-> "complete"])
       IN  /\ ch_full' = full
           /\ ch_conv' = Append(ch_conv, SavedMessage(full, ch_toolCalls))
           /\ ch_events' = IF fallback
                           THEN Append(written, [type |-> "token", content |-> full])
                           ELSE written
    /\ ch_pc' = "ended"
    /\ UNCHANGED <<ch_handler, ch_iterations, ch_rounds, ch_resp, ch_idx, ch_messages,
                   ch_toolCalls, ch_chunks>>
    /\ UNCHANGED <<swarmVars, gateVars, dispVars>>

\* POST /api/chat: the stream ends: the fallback to the non-streamed
\* content, the assistant message saved, complete, res.end()
ApiStreamEnd ==
    /\ ch_handler = "api_chat" /\ ch_pc = "stream"
    /\ LET fallback == ch_full = <<>> /\ ch_resp.content
           full == IF fallback THEN ContentOf(ch_resp) ELSE ch_full
           written == IF fallback
                      THEN Append(ch_events, [type |-> "token", content |-> full])
                      ELSE ch_events
       IN  /\ ch_full' = full
           /\ ch_conv' = Append(ch_conv, SavedMessage(full, ch_toolCalls))
           /\ ch_events' = Append(written, [type |-> "complete"])
    /\ ch_pc' = "ended"
    /\ UNCHANGED <<ch_handler, ch_iterations, ch_rounds, ch_resp, ch_idx, ch_messages,
                   ch_toolCalls, ch_chunks>>
    /\ UNCHANGED <<swarmVars, gateVars, dispVars>>

ChatNext ==
    \/ ChatReceive
    \/ ChatModelError
    \/ ChatFinalAnswer
    \/ ChatToolRound
    \/ ChatToolThrow
    \/ ChatToolSettle
    \/ ApiReceive
    \/ ApiModelError
    \/ ApiToolRound
    \/ ApiToolSettle
    \/ ApiStartStreaming
    \/ ApiStreamChunk
    \/ ApiStreamEnd

\* ------------------------------------------------------------------------
\* POST /chat/swarm
\* ------------------------------------------------------------------------
SwarmStart ==
    /\ sw_pc = "decompose"
    /\ tasks = <<>>
    /\ pending = <<>>
    /\ completed = {}
    /\ results = <<>>
    /\ runnable = <<>>
    /\ inflight = {}
    /\ activeAgents = <<>>
    /\ sw_events = <<[type |-> "phase", phase |-> "decomposing"]>>

\* decompose() returned a non-empty array: tasks and phase events are
\* written and executeSwarm is entered
DecomposeReturn ==
    /\ sw_pc = "decompose"
    /\ \E g \in Graphs :
        /\ tasks' = g
        /\ pending' = g
    /\ completed' = {}
    /\ results' = <<>>
    /\ sw_events' = sw_events \o <<[type |-> "tasks", tasks |-> tasks'],
                                  [type |-> "phase", phase |-> "executing"]>>
    /\ sw_pc' = "loop"
    /\ UNCHANGED <<runnable, inflight, activeAgents>>
    /\ UNCHANGED <<gateVars, chatVars, dispVars>>

\* decompose() returned a non-empty array that need not have distinct ids
DecomposeReturnAnyList ==
    /\ sw_pc = "decompose"
    /\ \E ts \in TaskLists :
        /\ tasks' = ts
        /\ pending' = ts
    /\ completed' = {}
    /\ results' = <<>>
    /\ sw_events' = sw_events \o <<[type |-> "tasks", tasks |-> tasks'],
                                  [type |-> "phase", phase |-> "executing"]>>
    /\ sw_pc' = "loop"
    /\ UNCHANGED <<runnable, inflight, activeAgents>>
    /\ UNCHANGED <<gateVars, chatVars, dispVars>>

\* the tasks.length === 0 check is missing: the handler goes on to run an
\* empty swarm and to synthesize
DecomposeEmptyFallsThrough ==
    /\ sw_pc = "decompose"
    /\ sw_events' = sw_events \o <<[type |-> "tasks", tasks |-> tasks],
                                  [type |-> "phase", phase |-> "executing"],
                                  [type |-> "phase", phase |-> "synthesizing"]>>
    /\ sw_pc' = "synth"
    /\ UNCHANGED <<tasks, pending, completed, results, runnable, inflight, activeAgents>>
    /\ UNCHANGED <<gateVars, chatVars, dispVars>>

\* decompose() returned [] (model failure, no JSON array, empty array)
DecomposeEmpty ==
    /\ sw_pc = "decompose"
    /\ sw_events' = Append(sw_events, [type |-> "error"])
    /\ sw_pc' = "ended"
    /\ UNCHANGED <<tasks, pending, completed, results, runnable, inflight, activeAgents>>
    /\ UNCHANGED <<gateVars, chatVars, dispVars>>

\* one turn of the while loop up to await Promise.all: the wavefront is
\* computed and every task of it is started
WavefrontStart ==
    /\ sw_pc = "loop"
    /\ Len(pending) > 0
    /\ LET run == Runnable(pending, completed)
           launched == Launch(run) IN
        /\ Len(run) # 0
        /\ runnable' = run
        /\ inflight' = 1..Len(launched)
        /\ activeAgents' = PushAgents(activeAgents, launched, 1)
        /\ sw_events' = sw_events \o StartEvents(launched, 1)
    /\ sw_pc' = "await"
    /\ UNCHANGED <<tasks, pending, completed, results>>
    /\ UNCHANGED <<gateVars, chatVars, dispVars>>

\* the promise of toolExecutor for runnable[i] settles
TaskSettle(i, outcome) ==
    /\ sw_pc = "await"
    /\ i \in inflight
    /\ LET id == runnable[i].id IN
        /\ results' = StoreResult(results, id, outcome)
        /\ sw_events' = Append(sw_events, SettleEvent(id, outcome))
        /\ completed' = MarkCompleted(completed, id, outcome)
        /\ activeAgents' = RemoveAgent(activeAgents, id, outcome)
    /\ inflight' = inflight \ {i}
    /\ UNCHANGED <<sw_pc, tasks, pending, runnable>>
    /\ UNCHANGED <<gateVars, chatVars, dispVars>>

\* Promise.race in place of Promise.all: the loop goes on when the first
\* execution settles
WavefrontJoinOnFirst ==
    /\ sw_pc = "await"
    /\ inflight # 1..Len(runnable)
    /\ pending' = RemoveRunnable(pending, runnable, 1)
    /\ sw_pc' = "loop"
    /\ UNCHANGED <<tasks, completed, results, runnable, inflight, activeAgents, sw_events>>
    /\ UNCHANGED <<gateVars, chatVars, dispVars>>

\* the executions are not awaited: the loop goes on while tasks are in flight
WavefrontJoinNoAwait ==
    /\ sw_pc = "await"
    /\ pending' = RemoveRunnable(pending, runnable, 1)
    /\ sw_pc' = "loop"
    /\ UNCHANGED <<tasks, completed, results, runnable, inflight, activeAgents, sw_events>>
    /\ UNCHANGED <<gateVars, chatVars, dispVars>>

\* const pending = tasks (no copy): the splice also empties the caller's array
WavefrontJoinAliased ==
    /\ sw_pc = "await"
    /\ inflight = {}
    /\ pending' = RemoveRunnable(pending, runnable, 1)
    /\ tasks' = pending'
    /\ sw_pc' = "loop"
    /\ UNCHANGED <<completed, results, runnable, inflight, activeAgents, sw_events>>
    /\ UNCHANGED <<gateVars, chatVars, dispVars>>

\* Promise.all(executions) resolves; the wavefront leaves pending
WavefrontJoin ==
    /\ sw_pc = "await"
    /\ inflight = {}
    /\ pending' = RemoveRunnable(pending, runnable, 1)
    /\ sw_pc' = "loop"
    /\ UNCHANGED <<tasks, completed, results, runnable, inflight, activeAgents, sw_events>>
    /\ UNCHANGED <<gateVars, chatVars, dispVars>>

\* no break: the loop ends only when pending is empty
SwarmReturnNoBreak ==
    /\ sw_pc = "loop"
    /\ Len(pending) = 0
    /\ sw_events' = Append(sw_events, [type |-> "phase", phase |-> "synthesizing"])
    /\ sw_pc' = "synth"
    /\ UNCHANGED <<tasks, pending, completed, results, runnable, inflight, activeAgents>>
    /\ UNCHANGED <<gateVars, chatVars, dispVars>>

\* the loop ends (pending empty, or nothing runnable: break) and
\* executeSwarm returns results; the handler starts synthesis
SwarmReturn ==
    /\ sw_pc = "loop"
    /\ \/ Len(pending) = 0
       \/ Len(Runnable(pending, completed)) = 0
    /\ sw_events' = Append(sw_events, [type |-> "phase", phase |-> "synthesizing"])
    /\ sw_pc' = "synth"
    /\ UNCHANGED <<tasks, pending, completed, results, runnable, inflight, activeAgents>>
    /\ UNCHANGED <<gateVars, chatVars, dispVars>>

\* done is written before the summary message
SynthesizeReturnDoneFirst(modelOk) ==
    /\ sw_pc = "synth"
    /\ sw_events' = sw_events \o
          <<DoneEvent(results),
            [type |-> "message", content |-> synthesize(modelOk, results)]>>
    /\ sw_pc' = "ended"
    /\ UNCHANGED <<tasks, pending, completed, results, runnable, inflight, activeAgents>>
    /\ UNCHANGED <<gateVars, chatVars, dispVars>>

\* synthesize() returns the model's summary, or the templated one when the
\* model request fails; message and done are written and the stream ends
SynthesizeReturn(modelOk) ==
    /\ sw_pc = "synth"
    /\ sw_events' = sw_events \o
          <<[type |-> "message", content |-> synthesize(modelOk, results)],
            DoneEvent(results)>>
    /\ sw_pc' = "ended"
    /\ UNCHANGED <<tasks, pending, completed, results, runnable, inflight, activeAgents>>
    /\ UNCHANGED <<gateVars, chatVars, dispVars>>

SwarmNext ==
    \/ DecomposeReturn
    \/ DecomposeEmpty
    \/ WavefrontStart
    \/ \E i \in inflight, o \in ToolOutcomes : TaskSettle(i, o)
    \/ WavefrontJoin
    \/ SwarmReturn
    \/ \E ok \in BOOLEAN : SynthesizeReturn(ok)

SwarmInit == SwarmStart /\ GateIdle /\ ChatIdle /\ DispatchIdle

SwarmSpec == SwarmInit /\ [][SwarmNext]_vars

\* executeSwarm's own steps: the event loop runs every continuation that is
\* ready, and every tool invocation is assumed to settle
ExecuteSwarmStep ==
    \/ WavefrontStart
    \/ \E i \in inflight, o \in ToolOutcomes : TaskSettle(i, o)
    \/ WavefrontJoin
    \/ SwarmReturn

SwarmFairSpec == SwarmInit /\ [][SwarmNext]_vars /\ WF_vars(ExecuteSwarmStep)

\* ------------------------------------------------------------------------
\* Vocabulary of the scheduler claims
\* ------------------------------------------------------------------------
Ids(ts) == {ts[i].id : i \in 1..Len(ts)}

\* depends_on of the task with the given id
DepsOf(ts, id) == UNION {ts[i].depends_on : i \in {k \in 1..Len(ts) : ts[k].id = id}}

\* every depends_on id exists in the graph
RefsExist(ts) == \A i \in 1..Len(ts) : ts[i].depends_on \subseteq Ids(ts)

RECURSIVE DepClosure(_, _, _)
DepClosure(ts, S, n) ==
    IF n = 0 THEN S
    ELSE DepClosure(ts, S \cup UNION {DepsOf(ts, i) : i \in S}, n - 1)

\* the ids a task depends on, directly or transitively
Reach(ts, id) == DepClosure(ts, DepsOf(ts, id), Len(ts))

OnCycle(ts, id) == id \in Reach(ts, id)

Acyclic(ts) == \A id \in Ids(ts) : ~OnCycle(ts, id)

\* no dependency relation between two tasks, in either direction
Unrelated(ts, a, b) == a # b /\ a \notin Reach(ts, b) /\ b \notin Reach(ts, a)

\* executeSwarm has returned its results to the handler
Returned == sw_pc \in {"synth", "ended"} /\ Len(tasks) > 0

\* positions in the event log
StartPos(id) ==
    {k \in 1..Len(sw_events) :
        sw_events[k].type = "agent_start" /\ sw_events[k].agentId = id}
SettlePos(id) ==
    {k \in 1..Len(sw_events) :
        sw_events[k].type \in {"agent_complete", "agent_error"} /\ sw_events[k].agentId = id}
StartedIds == {id \in TaskIds : StartPos(id) # {}}

\* both tasks had started before either had finished
Overlap(a, b) ==
    \E sa \in StartPos(a), sb \in StartPos(b) :
        /\ \A e \in SettlePos(a) : sa < e /\ sb < e
        /\ \A e \in SettlePos(b) : sa < e /\ sb < e

\* the tasks grouped by the length of their longest dependency chain: those
\* with no dependency, then those depending only on the former, and so on
\* (a task on a cycle, behind one, or naming a missing id is in no group)
RECURSIVE LevelsFrom(_, _)
LevelsFrom(ts, below) ==
    LET upto == {id \in Ids(ts) : DepsOf(ts, id) \subseteq below}
    IN  IF upto = below THEN <<>>
        ELSE <<upto \ below>> \o LevelsFrom(ts, upto)

Levels(ts) == LevelsFrom(ts, {})

\* ------------------------------------------------------------------------
\* C1  For an acyclic task graph whose depends_on ids all exist, executeSwarm
\*     terminates and the results it returns have an entry for every task id
\*     (every tool invocation settles).
\* ------------------------------------------------------------------------
C1_AcyclicTerminatesComplete ==
    (sw_pc = "loop" /\ Acyclic(tasks) /\ RefsExist(tasks))
        ~> (Returned /\ Ids(tasks) \subseteq DOMAIN results)

C1_Witness ==
    /\ Returned /\ Acyclic(tasks) /\ RefsExist(tasks)
    /\ Len(tasks) = MaxTasks
    /\ \E id \in Ids(tasks) : DepsOf(tasks, id) # {}
    /\ Ids(tasks) \subseteq DOMAIN results

\* ------------------------------------------------------------------------
\* C2  No task is dispatched (agent_start emitted, toolExecutor called)
\*     before every id of its depends_on has an entry in results.
\* ------------------------------------------------------------------------
C2_NoDispatchBeforeDeps ==
    [][\A k \in (Len(sw_events) + 1)..Len(sw_events') :
          sw_events'[k].type = "agent_start"
              => DepsOf(tasks, sw_events'[k].agentId) \subseteq DOMAIN results]_vars

C2_Witness ==
    \E i \in inflight :
        /\ runnable[i].depends_on # {}
        /\ runnable[i].depends_on \subseteq DOMAIN results

\* ------------------------------------------------------------------------
\* C3  (as stated) With a dependency cycle among a subset S, executeSwarm
\*     returns no result for S nor for anything depending exclusively on S,
\*     and every task outside that subset gets a result.
\* ------------------------------------------------------------------------
CycleTasks(ts) == {id \in Ids(ts) : OnCycle(ts, id)}

\* S together with the tasks all of whose dependencies lie in it
RECURSIVE ExclusiveClosure(_, _, _)
ExclusiveClosure(ts, S, n) ==
    IF n = 0 THEN S
    ELSE ExclusiveClosure(ts,
            S \cup {id \in Ids(ts) : DepsOf(ts, id) # {} /\ DepsOf(ts, id) \subseteq S},
            n - 1)

C3_Original ==
    (Returned /\ RefsExist(tasks) /\ CycleTasks(tasks) # {}) =>
        LET X == ExclusiveClosure(tasks, CycleTasks(tasks), Len(tasks))
        IN  /\ \A id \in X : id \notin DOMAIN results
            /\ \A id \in Ids(tasks) \ X : id \in DOMAIN results

\* C3  (amended) With a dependency cycle, executeSwarm returns no result for
\*     any task on a cycle nor for any task that depends on one directly or
\*     transitively, even if it also depends on tasks outside the cycle; every
\*     other task gets a result.
Blocked(ts) ==
    {id \in Ids(ts) : OnCycle(ts, id) \/ \E d \in Reach(ts, id) : OnCycle(ts, d)}

C3_CycleBlocksAllDependents ==
    (Returned /\ RefsExist(tasks) /\ CycleTasks(tasks) # {}) =>
        DOMAIN results = Ids(tasks) \ Blocked(tasks)

C3_Witness ==
    /\ Returned /\ RefsExist(tasks) /\ CycleTasks(tasks) # {}
    /\ \E id \in Blocked(tasks) \ CycleTasks(tasks) :
          \E d \in DepsOf(tasks, id) : d \in DOMAIN results
    /\ DOMAIN results = Ids(tasks) \ Blocked(tasks)

\* ------------------------------------------------------------------------
\* C4  At every wavefront boundary and at the return of executeSwarm, the
\*     ids with an entry in results are the completed set and are the tasks
\*     that were dispatched.
\* ------------------------------------------------------------------------
C4_ResultsIffDispatched ==
    (sw_pc \in {"loop", "synth", "ended"} /\ Len(tasks) > 0) =>
        /\ DOMAIN results = completed
        /\ DOMAIN results = StartedIds

C4_Witness ==
    /\ sw_pc = "loop"
    /\ DOMAIN results # {}
    /\ Len(pending) > 0
    /\ \E id \in DOMAIN results : ~results[id].success

\* ------------------------------------------------------------------------
\* C5  When executeSwarm stops with tasks still pending, the final event
\*     of the run names those unresolved tasks, apart from the tasks that
\*     were executed and failed.
\* ------------------------------------------------------------------------
\* the task ids an event tells its reader about
IdsNamed(ev) ==
    IF ev.type = "done" THEN DOMAIN ev.results
    ELSE IF ev.type \in {"agent_start", "agent_complete", "agent_error"} THEN {ev.agentId}
    ELSE {}

C5_UnresolvedReported ==
    (sw_pc = "ended" /\ Len(tasks) > 0 /\ Len(pending) > 0) =>
        Ids(pending) \subseteq IdsNamed(sw_events[Len(sw_events)])

\* ------------------------------------------------------------------------
\* C6  A task whose tool invocation fails is still added to completed: a
\*     task all of whose dependencies were executed, failed or not, is itself
\*     dispatched, after the last of them settled.
\* ------------------------------------------------------------------------
C6_FailedDependencyUnblocks ==
    Returned =>
        \A i \in 1..Len(tasks) :
            tasks[i].depends_on \subseteq DOMAIN results =>
                /\ tasks[i].id \in DOMAIN results
                /\ \A d \in tasks[i].depends_on :
                      \A s \in StartPos(tasks[i].id), e \in SettlePos(d) : e < s

C6_Witness ==
    /\ Returned
    /\ \E i \in 1..Len(tasks) :
          /\ tasks[i].id \in DOMAIN results
          /\ \E d \in tasks[i].depends_on :
                d # tasks[i].id /\ d \in DOMAIN results /\ ~results[d].success

\* ------------------------------------------------------------------------
\* C7  (as stated) Any two tasks with no dependency relation between them
\*     run concurrently: both have started before either has finished.
\* ------------------------------------------------------------------------
C7_Original ==
    Returned =>
        \A a \in DOMAIN results, b \in DOMAIN results :
            Unrelated(tasks, a, b) => Overlap(a, b)

\* C7  (amended) Any two tasks that become ready in the same wavefront (the
\*     same longest dependency chain, e.g. two tasks with empty depends_on)
\*     run concurrently; tasks without a dependency relation that become
\*     ready in different wavefronts do not.
C7_SameWavefrontOverlaps ==
    Returned =>
        LET lv == Levels(tasks)
        IN  \A a \in DOMAIN results, b \in DOMAIN results :
                a # b =>
                    (Overlap(a, b) <=> \E k \in 1..Len(lv) : a \in lv[k] /\ b \in lv[k])

C7_Witness ==
    /\ sw_pc = "await"
    /\ \E i \in inflight, j \in inflight :
          /\ i # j
          /\ runnable[i].depends_on # {}
          /\ Unrelated(tasks, runnable[i].id, runnable[j].id)
          /\ Overlap(runnable[i].id, runnable[j].id)

\* ------------------------------------------------------------------------
\* C8  No concurrency cap within a wavefront: when a wavefront is
\*     dispatched, every pending task whose dependencies are completed has its
\*     tool invocation issued before any of them settles.
\* ------------------------------------------------------------------------
ReadyIdx == {i \in 1..Len(pending) : pending[i].depends_on \subseteq completed}

C8_NoConcurrencyCap ==
    [][(sw_pc = "loop" /\ sw_pc' = "await") =>
          /\ Cardinality(inflight') = Cardinality(ReadyIdx)
          /\ {sw_events'[k].agentId : k \in (Len(sw_events) + 1)..Len(sw_events')}
                = {pending[i].id : i \in ReadyIdx}
          /\ \A k \in (Len(sw_events) + 1)..Len(sw_events') :
                sw_events'[k].type = "agent_start"]_vars

C8_Witness ==
    /\ sw_pc = "await"
    /\ Cardinality(inflight) = MaxTasks
    /\ \A i \in inflight : runnable[i].id \notin DOMAIN results

GateInit == GateIdle /\ SwarmStart /\ ChatIdle /\ DispatchIdle

GateSpec == GateInit /\ [][GateNext]_vars

\* ------------------------------------------------------------------------
\* C9  An invocation whose command text matches a destructive pattern
\*     returns the safety-blocked result and no child process is spawned for
\*     it, whether the text is run_command's command or is interpolated into
\*     the shell command built by grep_search.
\* ------------------------------------------------------------------------
C9_DestructiveNeverSpawned ==
    /\ \A n \in 1..Len(g_spawned) : ~isDangerous(g_spawned[n])
    /\ (g_pc = "returned" /\ isDangerous(ShellText(g_call))) => g_result = SafetyBlocked

ChatInit == ChatIdle /\ SwarmStart /\ GateIdle /\ DispatchIdle

ChatSpec == ChatInit /\ [][ChatNext]_vars

\* every model request is answered or fails, every invocation settles and
\* every stream ends
ChatFairSpec == ChatInit /\ [][ChatNext]_vars /\ WF_vars(ChatNext)

\* ------------------------------------------------------------------------
\* C10 The single-agent loop never performs more than MAX_ITERATIONS
\*     tool-dispatch rounds in a turn; with a model that requests a tool call
\*     in every response it performs exactly MAX_ITERATIONS rounds, and the
\*     turn terminates.
\* ------------------------------------------------------------------------
LastChatEvent == ch_events[Len(ch_events)]

SwarmMessage == sw_events[Len(sw_events) - 1]

C21_TemplatedSummaryOnFailure ==
    (sw_pc = "ended" /\ Len(tasks) > 0) =>
        /\ sw_events[Len(sw_events)].type = "done"
        /\ SwarmMessage.type = "message"
        /\ \A k \in 1..Len(sw_events) : sw_events[k].type # "error"
        /\ SwarmMessage.content.kind = "templated" =>
              SwarmMessage.content.count = Cardinality(StartedIds)

C21_Witness ==
    /\ sw_pc = "ended" /\ Len(tasks) > 0
    /\ SwarmMessage.content.kind = "templated"
    /\ SwarmMessage.content.count > 1
    /\ \E id \in DOMAIN results : ~results[id].success

\* ------------------------------------------------------------------------
\* C27  For a task graph with unique ids, executeSwarm writes results[id]
\*      exactly once for each dispatched task and never changes the entry
\*      afterwards, also while other tasks of the wavefront complete in any
\*      order.
\* ------------------------------------------------------------------------
C27_ResultsWrittenOnce ==
    [][/\ \A id \in DOMAIN results :
              id \in DOMAIN results' /\ results'[id] = results[id]
       /\ (sw_pc = "await" /\ inflight' # inflight) =>
              \E i \in inflight \ inflight' :
                  /\ runnable[i].id \notin DOMAIN results
                  /\ DOMAIN results' = DOMAIN results \cup {runnable[i].id}]_vars

C27_Witness ==
    /\ sw_pc = "await"
    /\ \E i \in inflight, j \in 1..Len(runnable) :
          /\ j > i
          /\ j \notin inflight
          /\ runnable[j].id \in DOMAIN results
    /\ Cardinality(DOMAIN results) > 1

\* ------------------------------------------------------------------------
\* C28  A task graph in which some depends_on id does not exist in the graph
\*      is rejected at decomposition: executeSwarm is never run on a graph
\*      with an undefined dependency reference.
\* ------------------------------------------------------------------------
C28_UndefinedReferenceRejected ==
    sw_pc \in {"loop", "await"} => RefsExist(tasks)

\* ------------------------------------------------------------------------
\* C29  At every point during executeSwarm, activeAgents holds exactly one
\*      record for each task that has started and not yet finished, none for
\*      any other task, and it is empty when executeSwarm returns.
\* ------------------------------------------------------------------------
\* the tasks whose tool invocation is awaited
InFlightIds == IF sw_pc = "await" THEN {runnable[i].id : i \in inflight} ELSE {}

ReportedTasks ==
    LET at == {k \in 1..Len(sw_events) : sw_events[k].type = "tasks"}
    IN  sw_events[CHOOSE k \in at : TRUE].tasks

C30_TasksUnmodified ==
    /\ [][(sw_pc \in {"loop", "await"}) => (tasks' = tasks)]_vars
    /\ [](Returned => tasks = ReportedTasks)

C30_Witness ==
    /\ Returned
    /\ Len(tasks) = MaxTasks
    /\ Len(pending) < Len(tasks)
    /\ tasks = ReportedTasks

\* ------------------------------------------------------------------------
\* Vocabulary of the single-agent claims
\* ------------------------------------------------------------------------
\* the turn ended by its own terminal event, not by the catch
EndedNormally == ch_pc = "ended" /\ LastChatEvent.type \in {"done", "complete"}

\* positions in the event log of the events of the given types
EventsOfType(types) == {k \in 1..Len(ch_events) : ch_events[k].type \in types}

\* the events that carry final-answer content
AnswerTypes == {"message", "token"}

\* the events that announce and that close a capability invocation
StartTypes == {"tool_start", "tool_call"}
CompletionTypes == {"tool_complete", "tool_result"}

\* ------------------------------------------------------------------------
\* C11  When the iteration counter reaches the maximum while the model still
\*      requests tool calls, a final request without tools is made and the
\*      turn delivers a non-empty final message (message or token events)
\*      before its terminal event.
\* ------------------------------------------------------------------------
C11_CapStillAnswers ==
    (EndedNormally /\ ch_rounds = MAX_ITERATIONS /\ ch_resp.calls > 0) =>
        \E k \in EventsOfType(AnswerTypes) : ch_events[k].content # <<>>

\* ------------------------------------------------------------------------
\* C12  In the single-agent loop a failing capability invocation never ends
\*      the turn: its failure result is emitted as the invocation's outcome
\*      event, appended to the conversation as a tool message, and the next
\*      model request is made with that message included.
\* ------------------------------------------------------------------------
\* the invocations whose outcome event reports a failure
FailedInvocations ==
    {k \in EventsOfType(CompletionTypes) : ~ch_events[k].success}

C12_FailureDoesNotEndTurn ==
    /\ \A k \in FailedInvocations :
          \E n \in 1..Len(ch_messages) :
              ch_messages[n] = ToolMessage(ch_events[k].round, ch_events[k].idx, "fail")
    /\ ch_pc = "ended" =>
          /\ Len(ch_events) > 1 => ch_events[Len(ch_events) - 1].type \notin StartTypes
          /\ \A k \in FailedInvocations : k + 1 < Len(ch_events)

\* ------------------------------------------------------------------------
\* C13  If a model request fails during a single-agent turn, the turn stops
\*      there: an error event is emitted, nothing is emitted after it (no
\*      message, complete or done), and no further model request or
\*      capability invocation is made.
\* ------------------------------------------------------------------------
C13_ModelFailureStopsTurn ==
    /\ [][(ChatModelError \/ ApiModelError) =>
            /\ ch_events' = Append(ch_events, [type |-> "error"])
            /\ ch_pc' = "ended"
            /\ UNCHANGED <<ch_messages, ch_toolCalls, ch_conv>>]_vars
    /\ [](\A k \in EventsOfType({"error"}) : k = Len(ch_events) /\ ch_pc = "ended")
    /\ [][ch_pc = "ended" => UNCHANGED chatVars]_vars

C13_Witness ==
    /\ ch_handler = "api_chat"
    /\ ch_pc = "ended"
    /\ LastChatEvent.type = "error"
    /\ ch_rounds > 0
    /\ EventsOfType({"token"}) # {}

\* ------------------------------------------------------------------------
\* C17  Every event written to the progress stream by the single-agent and
\*      swarm endpoints has a type among: thinking, agent_start,
\*      agent_complete, agent_error, tool_start, tool_complete, token, phase,
\*      tasks, message, complete, error, done.
\* ------------------------------------------------------------------------
EventTypes ==
    {"thinking", "agent_start", "agent_complete", "agent_error", "tool_start",
     "tool_complete", "token", "phase", "tasks", "message", "complete", "error", "done"}

C17_EventTypesClosed ==
    /\ \A k \in 1..Len(ch_events) : ch_events[k].type \in EventTypes
    /\ \A k \in 1..Len(sw_events) : sw_events[k].type \in EventTypes

\* ------------------------------------------------------------------------
\* C18  In the single-agent loop every tool invocation emits its start event
\*      before its completion event, every start event is followed by exactly
\*      one completion event for the same invocation, and that completion
\*      comes before the start event of the next invocation.
\* ------------------------------------------------------------------------
SameInvocation(a, b) == a.round = b.round /\ a.idx = b.idx

C18_StartThenCompletion ==
    /\ \A k \in EventsOfType(CompletionTypes) :
          k > 1 /\ ch_events[k - 1].type \in StartTypes
                /\ SameInvocation(ch_events[k - 1], ch_events[k])
    /\ \A k \in EventsOfType(StartTypes) :
          /\ k < Len(ch_events) =>
                /\ ch_events[k + 1].type \in CompletionTypes
                /\ SameInvocation(ch_events[k], ch_events[k + 1])
          /\ k = Len(ch_events) => ch_pc = "tool"
          /\ \A j \in EventsOfType(StartTypes) :
                SameInvocation(ch_events[j], ch_events[k]) => j = k

\* ------------------------------------------------------------------------
\* C19  A single-agent turn moves only forward through Thinking, tool
\*      rounds, Streaming, Complete: no tool invocation event after streaming
\*      of the final answer has begun, no token or message event before the
\*      last tool completion, and complete (done) only after all final-answer
\*      content.
\* ------------------------------------------------------------------------
Stage(ev) ==
    IF ev.type \in {"thinking"} \cup StartTypes \cup CompletionTypes THEN 1
    ELSE IF ev.type \in {"streaming"} \cup AnswerTypes THEN 2
    ELSE IF ev.type \in {"complete", "done"} THEN 3
    ELSE 0

\* every event written is at the stage of the event before it or at a later
\* one, and nothing but the catch's error is written after complete or done
C19_ForwardOnly ==
    [][\A k \in (Len(ch_events) + 1)..Len(ch_events') :
          (k > 1 /\ Stage(ch_events'[k]) > 0) =>
              /\ Stage(ch_events'[k - 1]) <= Stage(ch_events'[k])
              /\ Stage(ch_events'[k - 1]) \in 1..2]_vars

C19_Witness ==
    /\ EndedNormally
    /\ ch_rounds > 1
    /\ EventsOfType(AnswerTypes) # {}

\* ------------------------------------------------------------------------
\* C26  In a dispatch round where the model response requests k >= 1
\*      invocations, the conversation sent with the next request has grown
\*      by exactly one assistant message followed by k tool messages, one per
\*      invocation in invocation order.
\* ------------------------------------------------------------------------
AssistantPositions == {n \in 1..Len(ch_messages) : ch_messages[n].role = "assistant"}

C26_RoundGrowsConversation ==
    ch_pc = "request" =>
        /\ Cardinality(AssistantPositions) = ch_rounds
        /\ \A n \in AssistantPositions :
              \A j \in 1..ch_messages[n].calls :
                  /\ n + j <= Len(ch_messages)
                  /\ ch_messages[n + j].role = "tool"
                  /\ ch_messages[n + j].idx = j

\* ------------------------------------------------------------------------
\* The dispatchers on their own
\* ------------------------------------------------------------------------
\* the dispatchers start on any files
DispatchStart ==
    /\ d_pc = "idle"
    /\ d_call = NoDispatch
    /\ d_prev = NoDispatch
    /\ d_result = NoResult
    /\ d_effects = {}
    /\ d_count = 0
    /\ d_fs \in FileSystems

DispatchInit == DispatchStart /\ SwarmStart /\ GateIdle /\ ChatIdle

DispatchSpec == DispatchInit /\ [][DispatchNext]_vars

\* ------------------------------------------------------------------------
\* C14  The capability dispatcher never throws to its caller: for every
\*      capability name, known or not, and every argument mapping, undefined
\*      included, the invocation returns a result value.
\* ------------------------------------------------------------------------
C14_DispatcherNeverThrows == d_pc # "thrown"

\* ------------------------------------------------------------------------
\* C15  Every result the dispatcher returns, for every capability and every
\*      outcome, carries a boolean success field and an integer
\*      executionTime.
\* ------------------------------------------------------------------------
C15_ResultEnvelope ==
    (d_pc = "returned" /\ d_call.dispatcher \in Dispatchers) =>
        /\ "success" \in DOMAIN d_result
        /\ d_result.success \in BOOLEAN
        /\ "executionTime" \in DOMAIN d_result
        /\ d_result.executionTime \in Int

\* ------------------------------------------------------------------------
\* C16  An invocation lacking an argument its schema declares required is
\*      rejected with a failure before the handler runs: it has no effect on
\*      the filesystem and spawns no process.
\* ------------------------------------------------------------------------
MissingRequired ==
    /\ d_call.dispatcher \in Dispatchers
    /\ d_call.args.defined
    /\ ~(RequiredArgs(d_call.name) \subseteq d_call.args.keys)

C16_MissingArgumentRejected ==
    (d_pc = "returned" /\ MissingRequired) =>
        /\ d_effects = {}
        /\ "success" \in DOMAIN d_result /\ ~d_result.success

\* ------------------------------------------------------------------------
\* C22  Invoking write_file twice with identical arguments (path not
\*      denylisted) yields two successful results and leaves the file with
\*      the content it had after the first invocation: the second invocation
\*      overwrites and does not fail.
\* ------------------------------------------------------------------------
\* the last call was a write_file carrying a path and a content
WroteFile ==
    /\ d_call.dispatcher # "none"
    /\ d_call.name = "write_file"
    /\ Has(d_call.args, "path")
    /\ Has(d_call.args, "content")

\* a step that repeats the write_file call made just before it
RepeatedWrite ==
    /\ d_count' = d_count + 1
    /\ WroteFile
    /\ d_call' = d_call
    /\ d_prev' = d_call
    /\ ~isDangerousPath(d_call.args.path)

Succeeded(result) == "success" \in DOMAIN result /\ result.success

C22_WriteFileIdempotent ==
    [][RepeatedWrite =>
        /\ d_pc = "returned" /\ Succeeded(d_result)
        /\ d_pc' = "returned" /\ Succeeded(d_result')
        /\ d_fs' = d_fs
        /\ d_fs'.files[d_call.args.path] = d_call.args.content]_vars

\* the same write made twice in a row to a path off the denylist
C22_Witness ==
    /\ d_prev = d_call
    /\ WroteFile
    /\ ~isDangerousPath(d_call.args.path)
    /\ d_pc = "returned" /\ Succeeded(d_result)
    /\ d_effects = {"write"}
    /\ d_fs.files[d_call.args.path] = d_call.args.content

\* ------------------------------------------------------------------------
\* C24  A write_file invocation whose resolved path lies under a denylisted
\*      system-path prefix returns a failure result and neither creates a
\*      directory nor writes or changes any file, unless the override is
\*      explicitly set.
\* ------------------------------------------------------------------------
\* a step that is a write_file call on a denylisted path without the override
DenylistedWrite ==
    /\ d_count' = d_count + 1
    /\ d_call'.name = "write_file"
    /\ Has(d_call'.args, "path")
    /\ isDangerousPath(d_call'.args.path)
    /\ ~d_call'.options.force

C24_DenylistedWriteRefused ==
    [][DenylistedWrite =>
        /\ d_pc' = "returned"
        /\ "success" \in DOMAIN d_result' /\ ~d_result'.success
        /\ d_effects' = {}
        /\ d_fs' = d_fs]_vars

\* ------------------------------------------------------------------------
\* C20  If decomposition yields no task graph, the swarm run reports an
\*      error event and ends the stream: no capability is dispatched, no
\*      synthesis is requested and the single-agent loop is not run.
\* ------------------------------------------------------------------------
C20_EmptyDecompositionReported ==
    (sw_pc # "decompose" /\ Len(tasks) = 0) =>
        /\ sw_pc = "ended"
        /\ sw_events = <<[type |-> "phase", phase |-> "decomposing"], [type |-> "error"]>>
        /\ results = <<>> /\ completed = {} /\ inflight = {}
        /\ ch_pc = "idle" /\ d_pc = "idle" /\ g_pc = "idle"

C20_Witness ==
    /\ sw_pc = "ended"
    /\ Len(tasks) = 0
    /\ sw_events[Len(sw_events)].type = "error"

\* ------------------------------------------------------------------------
\* C25  A shell command that is not safety-blocked and exceeds the timeout
\*      or the output ceiling always yields a failure result (success false
\*      with an error): never success true with truncated output.
\* ------------------------------------------------------------------------
C25_LimitsYieldFailure ==
    [][(g_call.tool = "run_command" /\ (ExecSettle("timeout") \/ ExecSettle("maxbuffer"))) =>
          /\ ~g_result'.success
          /\ "error" \in DOMAIN g_result'
          /\ g_pc' = "returned"]_vars

C25_Witness ==
    /\ g_pc = "returned"
    /\ g_call.tool = "run_command"
    /\ g_spawned # <<>>
    /\ ~g_result.success
    /\ g_result.error \in {"timeout", "maxbuffer"}

\* ------------------------------------------------------------------------
\* One request to the server: a single-agent turn or a swarm run
\* ------------------------------------------------------------------------
RequestInit == SwarmStart /\ ChatIdle /\ GateIdle /\ DispatchIdle

\* a swarm run on whatever task list the planner answers with
RequestSwarmNext ==
    \/ DecomposeReturnAnyList
    \/ DecomposeEmpty
    \/ ExecuteSwarmStep
    \/ \E ok \in BOOLEAN : SynthesizeReturn(ok)

RequestNext ==
    \/ sw_pc = "decompose" /\ ChatNext
    \/ ch_pc = "idle" /\ RequestSwarmNext

\* every promise a handler awaits settles: model requests, capability
\* invocations and stream reads
RequestFairSpec == RequestInit /\ [][RequestNext]_vars /\ WF_vars(RequestNext)

\* ------------------------------------------------------------------------
\* C23  Every single-agent or swarm request's event stream ends with exactly
\*      one terminal event (done or complete, or error on abort), the stream
\*      is then closed and nothing is written after it; the stream is never
\*      left open.
\* ------------------------------------------------------------------------
TerminalTypes == {"done", "complete", "error"}

\* in the log, a terminal event is the last one and the stream is closed
TerminalIsLast(events, pc) ==
    \A k \in 1..Len(events) :
        events[k].type \in TerminalTypes => (k = Len(events) /\ pc = "ended")

C23_OneTerminalEvent ==
    /\ [](TerminalIsLast(ch_events, ch_pc) /\ TerminalIsLast(sw_events, sw_pc))
    /\ [](ch_pc = "ended" => LastChatEvent.type \in TerminalTypes)
    /\ [](sw_pc = "ended" => sw_events[Len(sw_events)].type \in TerminalTypes)
    /\ [][(ch_pc = "ended" \/ sw_pc = "ended") => UNCHANGED <<ch_events, sw_events>>]_vars
    /\ <>(ch_pc = "ended" \/ sw_pc = "ended")

C23_Witness ==
    /\ ch_handler = "chat"
    /\ ch_pc = "ended"
    /\ Len(ch_events) > 1
    /\ LastChatEvent.type = "error"
    /\ ch_events[Len(ch_events) - 1].type = "tool_call"

\* ------------------------------------------------------------------------
\* C31  On a completed turn, the assistant message saved to the conversation
\*      carries exactly one invocation record per tool call executed during
\*      that turn, in execution order, and carries none when no tool call
\*      was executed.
\* ------------------------------------------------------------------------
\* a turn of POST /api/chat that ended with complete
TurnCompleted ==
    /\ ch_handler = "api_chat"
    /\ ch_pc = "ended"
    /\ LastChatEvent.type = "complete"

\* the invocations the turn executed, in order, as the stream reported them
ExecutedInvocations ==
    LET IsCompletion(ev) == ev.type = "tool_complete"
    IN  SelectSeq(ch_events, IsCompletion)

LastSaved == ch_conv[Len(ch_conv)]

C31_OneRecordPerInvocation ==
    TurnCompleted =>
        /\ Len(ch_conv) > 0
        /\ LastSaved.role = "assistant"
        /\ IF ExecutedInvocations = <<>>
           THEN "toolCalls" \notin DOMAIN LastSaved
           ELSE /\ "toolCalls" \in DOMAIN LastSaved
                /\ Len(LastSaved.toolCalls) = Len(ExecutedInvocations)
                /\ \A k \in 1..Len(ExecutedInvocations) :
                     /\ LastSaved.toolCalls[k].round = ExecutedInvocations[k].round
                     /\ LastSaved.toolCalls[k].idx = ExecutedInvocations[k].idx
                     /\ LastSaved.toolCalls[k].success = ExecutedInvocations[k].success

\* a completed turn that executed two invocations, the first of which failed
C31_Witness ==
    /\ TurnCompleted
    /\ Len(ExecutedInvocations) = 2
    /\ ~ExecutedInvocations[1].success
    /\ ExecutedInvocations[2].success
    /\ "toolCalls" \in DOMAIN LastSaved

\* ------------------------------------------------------------------------
\* C32  Token events are emitted in the order the fragments are produced,
\*      and the content of the assistant message saved at the end of a turn
\*      equals the concatenation, in emission order, of the content of all
\*      token events emitted in that turn.
\* ------------------------------------------------------------------------
RECURSIVE Concat(_)
Concat(seqs) == IF seqs = <<>> THEN <<>> ELSE Head(seqs) \o Concat(Tail(seqs))

\* the content of the token events written so far, in emission order
TokenText ==
    LET IsToken(ev) == ev.type = "token"
        tokens == SelectSeq(ch_events, IsToken)
    IN  Concat([k \in 1..Len(tokens) |-> tokens[k].content])

\* fragments are named by their order of production
InProductionOrder(text) ==
    \A i, j \in 1..Len(text) : i < j => text[i] < text[j]

C32_TokensInOrderAndSaved ==
    /\ ch_handler = "api_chat" => InProductionOrder(TokenText)
    /\ TurnCompleted => LastSaved.content = TokenText

\* a completed turn whose stream carried two fragments
C32_Witness ==
    /\ TurnCompleted
    /\ Len(TokenText) = 2
    /\ LastSaved.content = TokenText

\* ------------------------------------------------------------------------
\* C33  Outside a wavefront nothing overlaps: the decomposition request
\*      completes before any capability is dispatched, the synthesis request
\*      starts only after every dispatched task has finished, and within a
\*      single-agent turn at most one model request or capability invocation
\*      is in flight at any time.
\* ------------------------------------------------------------------------
SwarmEventsOfType(types) == {k \in 1..Len(sw_events) : sw_events[k].type \in types}

\* tasks dispatched and tasks finished, counted in the swarm's event log
Dispatches == Cardinality(SwarmEventsOfType({"agent_start"}))
Finishes == Cardinality(SwarmEventsOfType({"agent_complete", "agent_error"}))

\* invocations announced and invocations closed in a single-agent turn
Announced == Cardinality(EventsOfType(StartTypes))
Closed == Cardinality(EventsOfType(CompletionTypes))

C33_SequentialOutsideWavefront ==
    /\ sw_pc = "decompose" => (inflight = {} /\ Dispatches = 0)
    /\ sw_pc = "synth" => (inflight = {} /\ Finishes = Dispatches)
    /\ ch_pc \in {"request", "stream"} => Announced = Closed
    /\ ch_pc = "tool" => Announced = Closed + 1
    /\ Announced <= Closed + 1

\* synthesis under way after a run that dispatched more than one task
C33_Witness ==
    /\ sw_pc = "synth"
    /\ Dispatches > 1
    /\ Finishes = Dispatches

\* ------------------------------------------------------------------------
\* executeSwarm on any task list the planner can answer with
\* ------------------------------------------------------------------------
AnyListNext ==
    \/ DecomposeReturnAnyList
    \/ ExecuteSwarmStep

AnyListFairSpec == SwarmInit /\ [][AnyListNext]_vars /\ WF_vars(ExecuteSwarmStep)

\* ------------------------------------------------------------------------
\* C34  executeSwarm terminates for every finite task list in which each
\*      task has a depends_on list, including graphs with cycles,
\*      self-dependencies, references to missing ids and duplicate ids: each
\*      loop iteration either removes at least one task from pending or
\*      exits the loop (every tool invocation settles).
\* ------------------------------------------------------------------------
DuplicateIds(ts) == \E i, j \in 1..Len(ts) : i # j /\ ts[i].id = ts[j].id

C34_SwarmTerminates ==
    /\ [][(sw_pc = "loop" /\ sw_pc' # "loop") =>
             \/ sw_pc' = "synth"
             \/ sw_pc' = "await" /\ Len(runnable') > 0]_vars
    /\ [][(sw_pc = "await" /\ sw_pc' = "loop") => Len(pending') < Len(pending)]_vars
    /\ (sw_pc = "loop") ~> (sw_pc = "synth")

\* two tasks share an id and the first waits on an id no task has: the
\* first turn runs the second task and splices the first one out, the second
\* turn runs the second task again, and the loop ends
C34_Witness ==
    /\ sw_pc = "synth"
    /\ DuplicateIds(tasks)
    /\ Len(tasks) = 2
    /\ tasks[1].depends_on # {} /\ tasks[1].id \notin tasks[1].depends_on
    /\ tasks[2].depends_on = {}
    /\ Len(pending) = 0
    /\ Dispatches = 2

\* ------------------------------------------------------------------------
\* C35  executeSwarm runs wavefronts as barriers: no task of the next
\*      wavefront is started until every task of the current wavefront has
\*      finished, even when that task's own dependencies all finished earlier.
\* ------------------------------------------------------------------------
\* the step writes an agent_start
StartsTask ==
    \E k \in (Len(sw_events) + 1)..Len(sw_events') : sw_events'[k].type = "agent_start"

\* pending tasks outside the current wavefront whose dependencies have all
\* finished
ReadyOutsideWavefront ==
    {i \in 1..Len(pending) :
        /\ pending[i].depends_on # {}
        /\ pending[i].depends_on \subseteq completed
        /\ \A j \in 1..Len(runnable) : runnable[j].id # pending[i].id}

C35_WavefrontBarrier ==
    /\ [][StartsTask => (inflight = {} /\ Finishes = Dispatches)]_vars
    /\ [](sw_pc = "await" =>
            \A i \in ReadyOutsideWavefront : StartPos(pending[i].id) = {})

\* a task of the wavefront is still running while a task outside it has
\* all its dependencies finished and is not started
C35_Witness ==
    /\ sw_pc = "await"
    /\ inflight # {}
    /\ ReadyOutsideWavefront # {}
    /\ \A i \in ReadyOutsideWavefront : StartPos(pending[i].id) = {}

\* ------------------------------------------------------------------------
\* C36  In executeSwarm a task is recorded as success:false and announced
\*      with agent_error exactly when the tool executor throws; whenever the
\*      executor returns a value, including a capability result whose own
\*      success field is false, the task is recorded as success:true and
\*      announced with agent_complete.
\* ------------------------------------------------------------------------
LastSwarmEvent == sw_events[Len(sw_events)]

\* what the step records and announces for the task whose executor settled
\* with the given outcome
RecordedAs(i, outcome) ==
    LET id == runnable[i].id
    IN  /\ id \in DOMAIN results'
        /\ LastSwarmEvent'.agentId = id
        /\ IF outcome = "throw"
           THEN ~results'[id].success /\ LastSwarmEvent'.type = "agent_error"
           ELSE results'[id].success /\ LastSwarmEvent'.type = "agent_complete"

C36_FailureOnlyOnThrow ==
    [][\A i \in inflight, outcome \in ToolOutcomes :
          TaskSettle(i, outcome) => RecordedAs(i, outcome)]_vars

\* a capability result with success false, recorded as a success
C36_Witness ==
    /\ LastSwarmEvent.type = "agent_complete"
    /\ LastSwarmEvent.agentId \in DOMAIN results
    /\ results[LastSwarmEvent.agentId].success
    /\ results[LastSwarmEvent.agentId].result = "fail"

\* ------------------------------------------------------------------------
\* C37  For every dispatched task executeSwarm emits exactly one agent_start
\*      and, later, exactly one of agent_complete or agent_error with the
\*      same agentId; a task that is never dispatched produces no agent
\*      event; and the terminal event of every dependency precedes the
\*      agent_start of each task depending on it.
\* ------------------------------------------------------------------------
\* an agent event the step writes is the first start of its task, written
\* after the terminal event of every dependency, or the only terminal event
\* of a task that has started
AgentEventInOrder(ev) ==
    CASE ev.type = "agent_start" ->
            /\ StartPos(ev.agentId) = {}
            /\ \A d \in DepsOf(tasks, ev.agentId) : SettlePos(d) # {}
      [] ev.type \in {"agent_complete", "agent_error"} ->
            /\ StartPos(ev.agentId) # {}
            /\ SettlePos(ev.agentId) = {}
      [] OTHER -> TRUE

\* one start at most among the events of one step
StartedOnce(events) ==
    \A j, k \in 1..Len(events) :
        (j # k /\ events[j].type = "agent_start" /\ events[k].type = "agent_start")
            => events[j].agentId # events[k].agentId

AgentTypes == {"agent_start", "agent_complete", "agent_error"}

IsPhase(ev, phase) == ev.type = "phase" /\ ev.phase = phase

\* the swarm run ended and wrote done
SwarmSucceeded == sw_pc = "ended" /\ SwarmEventsOfType({"done"}) # {}

C38_SwarmEventOrder ==
    SwarmSucceeded =>
        LET n == Len(sw_events) IN
        /\ n >= 6
        /\ IsPhase(sw_events[1], "decomposing")
        /\ sw_events[2].type = "tasks"
        /\ IsPhase(sw_events[3], "executing")
        /\ \A k \in 4..(n - 3) : sw_events[k].type \in AgentTypes
        /\ IsPhase(sw_events[n - 2], "synthesizing")
        /\ sw_events[n - 1].type = "message"
        /\ sw_events[n].type = "done"

\* a successful run with agent events of two wavefronts
C38_Witness ==
    /\ SwarmSucceeded
    /\ Dispatches > 1
    /\ \E k \in 4..(Len(sw_events) - 4) :
          sw_events[k].type \in {"agent_complete", "agent_error"}
             /\ sw_events[k + 1].type = "agent_start"

\* ------------------------------------------------------------------------
\* C39  A turn of the conversation-backed chat endpoint appends to the stored
\*      conversation exactly one user message and then, only if the turn
\*      completes, exactly one assistant message; a turn that ends with an
\*      error event leaves the user message appended with no assistant
\*      message and does not roll the conversation back.
\* ------------------------------------------------------------------------
Roles(messages) == [k \in 1..Len(messages) |-> messages[k].role]

C39_ConversationGrowth ==
    ch_handler = "api_chat" =>
        IF TurnCompleted
        THEN Roles(ch_conv) = <<"user", "assistant">>
        ELSE Roles(ch_conv) = <<"user">>

\* a turn that ran a capability and then ended with error
C39_Witness ==
    /\ ch_handler = "api_chat"
    /\ ch_pc = "ended"
    /\ LastChatEvent.type = "error"
    /\ Closed > 0
    /\ Roles(ch_conv) = <<"user">>

\* ------------------------------------------------------------------------
\* One edit_file call on any file
\* ------------------------------------------------------------------------
EditStart ==
    /\ d_pc = "idle"
    /\ d_call = NoDispatch
    /\ d_prev = NoDispatch
    /\ d_result = NoResult
    /\ d_effects = {}
    /\ d_count = 0
    /\ d_fs \in FileSystemsOver({SafePath}, EditContents)

EditInit == EditStart /\ SwarmStart /\ GateIdle /\ ChatIdle

EditSpec == EditInit /\ [][EditNext]_vars

\* ------------------------------------------------------------------------
\* C40  An edit_file invocation whose search text does not occur in the file
\*      (or whose file does not exist) returns a failure result and leaves
\*      the file's content unchanged; when the text occurs, only its first
\*      occurrence is replaced.
\* ------------------------------------------------------------------------
\* the positions at which the text occurs in the content
Occurrences(content, text) ==
    {p \in 1..(Len(content) - Len(text) + 1) :
        \A k \in 1..Len(text) : content[p + k - 1] = text[k]}

\* after is before with the occurrence at p replaced: what precedes p and
\* what follows the occurrence are as they were, and a replacement without a
\* pattern stands in between
ReplacedAt(before, after, p, text, replacement) ==
    LET rest == Len(before) - (p + Len(text) - 1)
    IN  /\ Len(after) >= (p - 1) + rest
        /\ SubSeq(after, 1, p - 1) = SubSeq(before, 1, p - 1)
        /\ SubSeq(after, Len(after) - rest + 1, Len(after))
              = SubSeq(before, p + Len(text), Len(before))
        /\ (\A k \in 1..Len(replacement) : replacement[k] # MatchedPattern) =>
              SubSeq(after, p, Len(after) - rest) = replacement

\* the step is an edit_file call
EditsFile == d_count' = d_count + 1 /\ d_call'.name = "edit_file"

C40_EditFirstOccurrenceOnly ==
    [][EditsFile =>
        LET path == d_call'.args.path
            text == d_call'.args.old_text
        IN  /\ d_pc' = "returned"
            /\ "success" \in DOMAIN d_result'
            /\ IF ~Exists(d_fs, path) \/ Occurrences(d_fs.files[path], text) = {}
               THEN ~d_result'.success /\ d_fs' = d_fs
               ELSE /\ d_result'.success
                    /\ d_fs'.dirs = d_fs.dirs
                    /\ DOMAIN d_fs'.files = DOMAIN d_fs.files
                    /\ \E p \in Occurrences(d_fs.files[path], text) :
                          /\ \A q \in Occurrences(d_fs.files[path], text) : p <= q
                          /\ ReplacedAt(d_fs.files[path], d_fs'.files[path], p, text,
                                        d_call'.args.new_text)]_vars

\* an edit of a file in which the text occurs twice: the second occurrence
\* is still there
C40_Witness ==
    /\ d_pc = "returned"
    /\ d_call.dispatcher # "none"
    /\ d_call.name = "edit_file"
    /\ Succeeded(d_result)
    /\ d_call.args.old_text = <<"a">>
    /\ d_call.args.new_text = <<"b">>
    /\ d_fs.files[d_call.args.path] = <<"b", "b", "a">>

====
